---------------------------- MODULE Spec2Model ----------------------------
(***************************************************************************)
(* A model of the hourglass particle system                                *)
(* (src/src/renderer/canvas/ParticleSystem.ts), of the renderer's frame    *)
(* loop, and of the timer and pomodoro state machines that drive it        *)
(* (renderer/state, renderer/index.ts), and of the history store.          *)
(*                                                                         *)
(* Number representation.  The source computes with IEEE-754 doubles.      *)
(*  - Pixel quantities (x, y, radius, geometry) are integers counting      *)
(*    1/Scale px; velocities count 1/Scale px per second; dt is an integer *)
(*    number of milliseconds; products are rounded to the nearest unit.    *)
(*  - The release schedule (releaseInterval, targetReleased) decides a     *)
(*    whole grain, so it is computed bit for bit: a double is a record     *)
(*    with a 53-bit mantissa held in four limbs, and FDiv is IEEE-754      *)
(*    division rounded to nearest, ties to even.                           *)
(*  - Math.random() is Rand(seed, k) / RandDen, the k-th draw of a call;   *)
(*    the seed is chosen once per behaviour (rngSeed).                     *)
(***************************************************************************)
EXTENDS Integers, Sequences, FiniteSets, TLC

VARIABLES
  grains,           \* ParticleSystem._grains: sequence of grain records
  geometry,         \* ParticleSystem._geometry: <<>> is null, <<geo>> is set
  totalGrains,      \* ParticleSystem._totalGrains
  releasedCount,    \* ParticleSystem._releasedCount
  releaseInterval,  \* ParticleSystem._releaseInterval (a double)
  lastReleaseTime,  \* ParticleSystem._lastReleaseTime
  elapsedMs,        \* ParticleSystem._elapsedMs
  psTotalMs,        \* ParticleSystem._totalMs
  rngSeed,          \* the seed of the Math.random stream of this run
  lastCall,         \* history: the last call made and what it saw
  calls,            \* history: number of calls made so far
  app,              \* the fields of TimerState, PomodoroState, index.ts and the
                    \* scalar fields of HourglassRenderer, as one record
  canvas,           \* what the last _draw painted
  loopAt,           \* the position of HourglassRenderer._loop: "idle" or "draw"
  history,          \* HistoryStore._entries, the localStorage item it keeps
                    \* and the number of UUIDs drawn so far
  step,             \* the position of ParticleSystem.update when it is followed
                    \* statement by statement, and its locals
  shake             \* ScreenShake._intensity

vars == <<grains, geometry, totalGrains, releasedCount, releaseInterval,
          lastReleaseTime, elapsedMs, psTotalMs, rngSeed, lastCall, calls,
          app, canvas, loopAt, history, step, shake>>

-----------------------------------------------------------------------------
(* Bounds of the model *)

MaxCalls == 3      \* calls per behaviour of Spec
MaxSeed == 1       \* seeds 0..MaxSeed of the random source
MaxFrames == 6     \* calls (frames) per behaviour of SpecRun
MaxAppCalls == 4   \* handlers of index.ts run per behaviour of SpecApp
MaxAppFrames == 2  \* frames per behaviour of SpecApp
MaxCycles == 5     \* completed work sessions per behaviour of SpecPomodoro

-----------------------------------------------------------------------------
(* Fixed-point arithmetic *)

Scale == 10        \* units per pixel
RandDen == 100     \* Math.random() is k / RandDen, k in 0..RandDen-1
Unit == 1000       \* a unit normal has length Unit

Abs(v) == IF v < 0 THEN -v ELSE v
Min(v, w) == IF v < w THEN v ELSE w
Max(v, w) == IF v > w THEN v ELSE w

\* v / w rounded to the nearest integer, w > 0
Rnd(v, w) == (2 * v + w) \div (2 * w)

RECURSIVE SqrtSearch(_, _, _)
SqrtSearch(v, lo, hi) ==
  IF hi - lo <= 1 THEN lo
  ELSE LET mid == (lo + hi) \div 2
       IN  IF mid * mid <= v THEN SqrtSearch(v, mid, hi) ELSE SqrtSearch(v, lo, mid)

\* floor(sqrt(v)) for 0 <= v < 2^30
ISqrt(v) == SqrtSearch(v, 0, 32768)

\* the k-th Math.random() draw of a call, for the given seed
Rand(seed, k) == ((k + 17 * seed) * 37 + ((k + seed) \div 3) * 11 + 50 * seed) % RandDen

\* faulty variant of Centered, twice as wide; C7_FreshReserve fails under it
CenteredWide(r, span) == Rnd((2 * r - RandDen) * span, RandDen)

\* (Math.random() - 0.5) * span, in the units of span
Centered(r, span) == Rnd((2 * r - RandDen) * span, 2 * RandDen)

-----------------------------------------------------------------------------
(* IEEE-754 doubles: a finite nonzero double is man * 2^(exp - 52) with     *)
(* 2^52 <= man < 2^53; man is <<l1, l2, l3, l4>>, limbs of 14 bits.         *)

LimbBits == 14
LimbBase == 16384  \* 2^LimbBits
MantBits == 53
MantTop == 1024    \* the leading limb of a normalised mantissa is >= 2^10
IntCap == 1073741824

BZero == <<0, 0, 0, 0>>
BOfInt(i) == <<0, i \div (LimbBase * LimbBase), (i \div LimbBase) % LimbBase, i % LimbBase>>
BToInt(n) == (n[2] * LimbBase + n[3]) * LimbBase + n[4]

BTwice(n) ==
  LET t4 == 2 * n[4]
      t3 == 2 * n[3] + t4 \div LimbBase
      t2 == 2 * n[2] + t3 \div LimbBase
      t1 == 2 * n[1] + t2 \div LimbBase
  IN  <<t1, t2 % LimbBase, t3 % LimbBase, t4 % LimbBase>>

BHalf(n) ==
  <<n[1] \div 2,
    (n[1] % 2) * (LimbBase \div 2) + n[2] \div 2,
    (n[2] % 2) * (LimbBase \div 2) + n[3] \div 2,
    (n[3] % 2) * (LimbBase \div 2) + n[4] \div 2>>

BGeq(m, n) ==
  IF m[1] # n[1] THEN m[1] > n[1]
  ELSE IF m[2] # n[2] THEN m[2] > n[2]
  ELSE IF m[3] # n[3] THEN m[3] > n[3]
  ELSE m[4] >= n[4]

BSub(m, n) ==
  LET s4 == m[4] - n[4]
      s3 == m[3] - n[3] - (IF s4 < 0 THEN 1 ELSE 0)
      s2 == m[2] - n[2] - (IF s3 < 0 THEN 1 ELSE 0)
      s1 == m[1] - n[1] - (IF s2 < 0 THEN 1 ELSE 0)
  IN  <<s1, s2 % LimbBase, s3 % LimbBase, s4 % LimbBase>>

BInc(n) ==
  LET u4 == n[4] + 1
      u3 == n[3] + u4 \div LimbBase
      u2 == n[2] + u3 \div LimbBase
      u1 == n[1] + u2 \div LimbBase
  IN  <<u1, u2 % LimbBase, u3 % LimbBase, u4 % LimbBase>>

\* shift left until the leading bit is bit 52: by a limb while that fits, then by bits
RECURSIVE Normalize(_, _)
Normalize(man, exp) ==
  IF man[1] >= MantTop THEN [man |-> man, exp |-> exp]
  ELSE IF man[1] = 0 /\ man[2] < 2 * MantTop
       THEN Normalize(<<man[2], man[3], man[4], 0>>, exp - LimbBits)
       ELSE Normalize(BTwice(man), exp - 1)

DZero(neg) == [cls |-> "zero", neg |-> neg, man |-> BZero, exp |-> 0]
DNaN == [cls |-> "nan", neg |-> FALSE, man |-> BZero, exp |-> 0]
DInf(neg) == [cls |-> "inf", neg |-> neg, man |-> BZero, exp |-> 0]

\* the double that holds the integer i exactly (|i| < 2^31)
DoubleOfInt(i) ==
  IF i = 0 THEN DZero(FALSE)
  ELSE LET nrm == Normalize(BOfInt(Abs(i)), 52)
       IN  [cls |-> "fin", neg |-> i < 0, man |-> nrm.man, exp |-> nrm.exp]

\* restoring division, one quotient bit
DivBit(st, den) ==
  IF BGeq(st.rem, den)
  THEN [rem |-> BTwice(BSub(st.rem, den)), quo |-> BInc(BTwice(st.quo))]
  ELSE [rem |-> BTwice(st.rem), quo |-> BTwice(st.quo)]

\* n quotient bits
RECURSIVE DivBits(_, _, _)
DivBits(st, den, n) ==
  IF n = 1 THEN DivBit(st, den)
  ELSE LET part == DivBits(st, den, n \div 2)
       IN  IF part.quo[1] < 0 THEN part ELSE DivBits(part, den, n - n \div 2)

\* the JavaScript operator / on doubles
FDiv(p, q) ==
  LET sgn == (p.neg # q.neg)
  IN  IF p.cls = "nan" \/ q.cls = "nan" THEN DNaN
      ELSE IF p.cls = "inf" THEN (IF q.cls = "inf" THEN DNaN ELSE DInf(sgn))
      ELSE IF q.cls = "inf" THEN DZero(sgn)
      ELSE IF q.cls = "zero" THEN (IF p.cls = "zero" THEN DNaN ELSE DInf(sgn))
      ELSE IF p.cls = "zero" THEN DZero(sgn)
      ELSE LET big == BGeq(p.man, q.man)
               rem0 == IF big THEN p.man ELSE BTwice(p.man)
               exp0 == IF big THEN p.exp - q.exp ELSE p.exp - q.exp - 1
               dv   == DivBits([rem |-> rem0, quo |-> BZero], q.man, MantBits)
               up   == IF dv.rem = q.man THEN dv.quo[4] % 2 = 1 ELSE BGeq(dv.rem, q.man)
               quo1 == IF up THEN BInc(dv.quo) ELSE dv.quo
               ovf  == quo1[1] >= 2 * MantTop
           IN  [cls |-> "fin", neg |-> sgn,
                man |-> IF ovf THEN BHalf(quo1) ELSE quo1,
                exp |-> IF ovf THEN exp0 + 1 ELSE exp0]

\* shift right by k bits; lost: a nonzero bit was shifted out
RECURSIVE ShiftOut(_, _, _)
ShiftOut(n, k, lost) ==
  IF k = 0 THEN [n |-> n, lost |-> lost]
  ELSE IF k >= LimbBits
       THEN ShiftOut(<<0, n[1], n[2], n[3]>>, k - LimbBits, lost \/ n[4] # 0)
       ELSE ShiftOut(BHalf(n), k - 1, lost \/ n[4] % 2 = 1)

\* Math.floor of a double: [nan, val]; magnitudes of 2^30 and more (and the
\* infinities) are reported as +-IntCap
FloorInt(d) ==
  IF d.cls = "nan" THEN [nan |-> TRUE, val |-> 0]
  ELSE IF d.cls = "zero" THEN [nan |-> FALSE, val |-> 0]
  ELSE IF d.cls = "inf" \/ d.exp >= 30
       THEN [nan |-> FALSE, val |-> IF d.neg THEN -IntCap ELSE IntCap]
  ELSE IF d.exp < 0 THEN [nan |-> FALSE, val |-> IF d.neg THEN -1 ELSE 0]
  ELSE LET sh == ShiftOut(d.man, 52 - d.exp, FALSE)
           ip == BToInt(sh.n)
       IN  [nan |-> FALSE,
            val |-> IF d.neg THEN -(ip + (IF sh.lost THEN 1 ELSE 0)) ELSE ip]

-----------------------------------------------------------------------------
(* Program constants of ParticleSystem.ts *)

GRAVITY == 600            \* px/s^2
DAMPING == 30             \* 0.3, in hundredths: velocity retention on bounce
FRICTION == 92            \* 0.92, in hundredths: horizontal friction
SETTLE_THRESHOLD == 8     \* px/s
GRAIN_RADIUS == (5 * Scale) \div 2      \* 2.5 px
CELL_SIZE == GRAIN_RADIUS * 4
MinGrainCount == 200
MaxGrainCount == 400
MsPerGrain == 500
GrainsPerRow == 20

Px(v) == v * Scale

-----------------------------------------------------------------------------
(* Inputs *)

Wall(x1, y1, x2, y2) == [x1 |-> Px(x1), y1 |-> Px(y1), x2 |-> Px(x2), y2 |-> Px(y2)]

\* a squat hourglass: the floor is 6 px below the neck top
GeoSquat ==
  [walls |-> <<Wall(0, 0, 20, 70), Wall(20, 70, 0, 80),
               Wall(60, 0, 40, 70), Wall(40, 70, 60, 80)>>,
   neckLeft |-> Px(20), neckRight |-> Px(40),
   neckTopY |-> Px(70), neckBottomY |-> Px(71),
   bottomFloorY |-> Px(76), topCeilingY |-> Px(0)]

\* a taller one: the floor is 30 px below the neck top
GeoTall ==
  [walls |-> <<Wall(0, 0, 22, 72), Wall(22, 72, 0, 105),
               Wall(60, 0, 38, 72), Wall(38, 72, 60, 105)>>,
   neckLeft |-> Px(22), neckRight |-> Px(38),
   neckTopY |-> Px(70), neckBottomY |-> Px(74),
   bottomFloorY |-> Px(100), topCeilingY |-> Px(5)]

Geometries == {GeoSquat, GeoTall}

\* totalMs values passed to init
Durations == {-500, 0, 7, 60000, 150000, 600000}

\* timerElapsedMs values passed to update
Elapsed == {0, 7, 300}

\* dt values passed to update, in milliseconds (0.016 s)
Dts == {16}

Seeds == 0..MaxSeed

-----------------------------------------------------------------------------
(* ParticleSystem *)

HasGeometry == geometry # <<>>
Geo == geometry[1]

\* _getWidthAtY
getWidthAtY(geo, y) ==
  LET neckWidth == geo.neckRight - geo.neckLeft
      maxWidth  == (geo.neckRight - geo.neckLeft) + Px(120)
      \* sqrt(min(1, num / den)), in thousandths
      Ease(num, den) ==
        IF num >= den THEN Unit ELSE ISqrt((num * Unit * Unit) \div den)
  IN  IF y >= geo.neckTopY /\ y <= geo.neckBottomY THEN neckWidth
      ELSE IF y < geo.neckTopY
           THEN neckWidth + Rnd((maxWidth - neckWidth)
                                  * Ease(geo.neckTopY - y, geo.neckTopY - geo.topCeilingY), Unit)
           ELSE neckWidth + Rnd((maxWidth - neckWidth)
                                  * Ease(y - geo.neckBottomY, geo.bottomFloorY - geo.neckBottomY), Unit)

\* the grain pushed by iteration i (0-based) of the loop of init
NewGrain(geo, i, seed) ==
  LET centerX   == (geo.neckLeft + geo.neckRight) \div 2
      topHeight == geo.neckTopY - geo.topCeilingY
      row       == i \div GrainsPerRow
      col       == i % GrainsPerRow
      rowY      == geo.neckTopY - Px(12) - row * Rnd(GRAIN_RADIUS * 22, 10)
      rowWidth  == Rnd(getWidthAtY(geo, rowY) * 8, 10)
      rowStartX == centerX - rowWidth \div 2
      grainX    == rowStartX + Rnd(col * rowWidth, GrainsPerRow - 1)
  IN  [x |-> grainX + Centered(Rand(seed, 4 * i), Px(2)),
       y |-> Min(rowY, geo.topCeilingY + Rnd(topHeight * 9, 10))
               + Centered(Rand(seed, 4 * i + 1), Px(2)),
       vx |-> 0,
       vy |-> 0,
       radius |-> GRAIN_RADIUS + Centered(Rand(seed, 4 * i + 2), Rnd(Px(8), 10)),
       color |-> "",
       colorOffset |-> Centered(Rand(seed, 4 * i + 3), Px(2)),
       settled |-> TRUE,
       active |-> FALSE]

\* faulty variant of GrainCount, without the upper limit; C5_GrainCount fails
\* under it
GrainCountUncapped(ms) ==
  Max(MinGrainCount, FloorInt(FDiv(DoubleOfInt(ms), DoubleOfInt(MsPerGrain))).val)

\* Math.min(400, Math.max(200, Math.floor(totalMs / 500)))
GrainCount(ms) ==
  Min(MaxGrainCount,
      Max(MinGrainCount, FloorInt(FDiv(DoubleOfInt(ms), DoubleOfInt(MsPerGrain))).val))

\* faulty variant of BestInactive that takes the first inactive grain of
\* lo..hi, whatever its y; C31_ReleasePicksLowest fails under it
RECURSIVE FirstInactive(_, _, _)
FirstInactive(gs, lo, hi) ==
  IF lo > hi THEN 0
  ELSE IF lo = hi THEN (IF gs[lo].active THEN 0 ELSE lo)
  ELSE LET bl == FirstInactive(gs, lo, (lo + hi) \div 2)
       IN  IF bl # 0 THEN bl ELSE FirstInactive(gs, (lo + hi) \div 2 + 1, hi)

\* the first inactive grain of lo..hi with the greatest y, 0 when there is none
RECURSIVE BestInactive(_, _, _)
BestInactive(gs, lo, hi) ==
  IF lo > hi THEN 0
  ELSE IF lo = hi THEN (IF gs[lo].active THEN 0 ELSE lo)
  ELSE LET mid == (lo + hi) \div 2
           bl  == BestInactive(gs, lo, mid)
           br  == BestInactive(gs, mid + 1, hi)
       IN  IF bl = 0 THEN br
           ELSE IF br = 0 THEN bl
           ELSE IF gs[br].y > gs[bl].y THEN br ELSE bl

\* faulty variant of releaseNextGrain that leaves the grain in the reserve;
\* C4_ActiveIsReleased fails under it
releaseNextGrainInactive(gs, geo, seed, k) ==
  LET best == BestInactive(gs, 1, Len(gs))
  IN  IF best = 0 THEN gs
      ELSE [gs EXCEPT ![best] = [@ EXCEPT !.y = geo.neckTopY + Px(2), !.settled = FALSE]]

\* faulty variant of releaseNextGrain that draws a new colorOffset for the
\* released grain; C14_ColorOffsetFixed fails under it
releaseNextGrainRecolor(gs, geo, seed, k) ==
  LET best    == BestInactive(gs, 1, Len(gs))
      centerX == (geo.neckLeft + geo.neckRight) \div 2
  IN  IF best = 0 THEN gs
      ELSE [gs EXCEPT ![best] =
              [@ EXCEPT
                 !.x = centerX + Centered(Rand(seed, 3 * k),
                                          geo.neckRight - geo.neckLeft - gs[best].radius * 2),
                 !.y = geo.neckTopY + Px(2),
                 !.vx = Centered(Rand(seed, 3 * k + 1), Px(10)),
                 !.vy = Px(20) + Rnd(Rand(seed, 3 * k + 2) * Px(30), RandDen),
                 !.colorOffset = gs[best].colorOffset + Px(1),
                 !.active = TRUE,
                 !.settled = FALSE]]

\* _releaseNextGrain, as the k-th release (0-based) since init: the grains after it
releaseNextGrain(gs, geo, seed, k) ==
  LET best    == BestInactive(gs, 1, Len(gs))
      centerX == (geo.neckLeft + geo.neckRight) \div 2
  IN  IF best = 0 THEN gs
      ELSE [gs EXCEPT ![best] =
              [@ EXCEPT
                 !.x = centerX + Centered(Rand(seed, 3 * k),
                                          geo.neckRight - geo.neckLeft - gs[best].radius * 2),
                 !.y = geo.neckTopY + Px(2),
                 !.vx = Centered(Rand(seed, 3 * k + 1), Px(10)),
                 !.vy = Px(20) + Rnd(Rand(seed, 3 * k + 2) * Px(30), RandDen),
                 !.active = TRUE,
                 !.settled = FALSE]]

\* the loop  while (releasedCount < targetReleased) _releaseNextGrain():
\* cnt releases, the first of them the k-th since init
RECURSIVE ReleaseLoop(_, _, _, _, _)
ReleaseLoop(gs, geo, seed, k, cnt) ==
  IF cnt <= 0 THEN gs
  ELSE IF cnt = 1 THEN releaseNextGrain(gs, geo, seed, k)
  ELSE LET half  == cnt \div 2
           first == ReleaseLoop(gs, geo, seed, k, half)
       IN  IF Len(first) = 0 THEN first
           ELSE ReleaseLoop(first, geo, seed, k + half, cnt - half)

\* faulty variant of TargetReleased, without the cap at totalGrains;
\* C2_ReleasedMonotone fails under it
TargetReleasedUncapped(total, interval, e) ==
  LET fl == FloorInt(FDiv(DoubleOfInt(e), interval))
  IN  [nan |-> fl.nan, val |-> IF fl.nan THEN 0 ELSE fl.val]

\* Math.min(totalGrains, Math.floor(timerElapsedMs / releaseInterval)):
\* [nan, val]; a NaN compares false with every number
TargetReleased(total, interval, e) ==
  LET fl == FloorInt(FDiv(DoubleOfInt(e), interval))
  IN  [nan |-> fl.nan, val |-> IF fl.nan THEN 0 ELSE Min(total, fl.val)]

\* the number of iterations of the release loop of update
ReleaseCount(released, target) ==
  IF target.nan \/ released >= target.val THEN 0 ELSE target.val - released

\* faulty variant of explodeGrains that kicks every active grain;
\* C9_ExplodeEffect fails under it
explodeGrainsAllActive(gs, seed) ==
  [i \in 1..Len(gs) |->
     IF gs[i].active
     THEN [gs[i] EXCEPT
             !.settled = FALSE,
             !.vy = -(Px(200) + Rnd(Rand(seed, 2 * i) * Px(300), RandDen)),
             !.vx = Centered(Rand(seed, 2 * i + 1), Px(200))]
     ELSE gs[i]]

\* faulty variant of explodeGrains that kicks downwards;
\* C10_RestingGrainRises fails under it
explodeGrainsDown(gs, seed) ==
  [i \in 1..Len(gs) |->
     IF gs[i].settled /\ gs[i].active
     THEN [gs[i] EXCEPT
             !.settled = FALSE,
             !.vy = Px(200) + Rnd(Rand(seed, 2 * i) * Px(300), RandDen),
             !.vx = Centered(Rand(seed, 2 * i + 1), Px(200))]
     ELSE gs[i]]

\* the body of explode: every grain that is settled and active is kicked
explodeGrains(gs, seed) ==
  [i \in 1..Len(gs) |->
     IF gs[i].settled /\ gs[i].active
     THEN [gs[i] EXCEPT
             !.settled = FALSE,
             !.vy = -(Px(200) + Rnd(Rand(seed, 2 * i) * Px(300), RandDen)),
             !.vx = Centered(Rand(seed, 2 * i + 1), Px(200))]
     ELSE gs[i]]

-----------------------------------------------------------------------------
(* The physics step *)

CellOf(g) == <<g.x \div CELL_SIZE, g.y \div CELL_SIZE>>

\* _buildSpatialGrid: cell -> the active grains (indices) in it, in grain order
buildSpatialGrid(gs) ==
  LET idx   == [i \in 1..Len(gs) |-> i]
      cells == {CellOf(gs[i]) : i \in {j \in 1..Len(gs) : gs[j].active}}
  IN  [c \in cells |-> SelectSeq(idx, LAMBDA i : gs[i].active /\ CellOf(gs[i]) = c)]

\* _getNearby: the grains of the 3 x 3 cells around g's present cell, without g
getNearby(grid, g, self) ==
  LET here == CellOf(g)
      At(ox, oy) ==
        LET c == <<here[1] + ox, here[2] + oy>>
        IN  IF c \in DOMAIN grid THEN grid[c] ELSE <<>>
  IN  SelectSeq(At(-1, -1) \o At(-1, 0) \o At(-1, 1)
                  \o At(0, -1) \o At(0, 0) \o At(0, 1)
                  \o At(1, -1) \o At(1, 0) \o At(1, 1),
                LAMBDA j : j # self)

\* sqrt(d2) in hundredths of a unit
Dist100(d2) == ISqrt(d2 * 10000)

\* _collideWall
collideWall(g, wall) ==
  LET wdx   == wall.x2 - wall.x1
      wdy   == wall.y2 - wall.y1
      len2  == wdx * wdx + wdy * wdy
      tnum  == (g.x - wall.x1) * wdx + (g.y - wall.y1) * wdy
      tcl   == Max(0, Min(len2, tnum))
      closestX == wall.x1 + Rnd(tcl * wdx, len2)
      closestY == wall.y1 + Rnd(tcl * wdy, len2)
      distX == g.x - closestX
      distY == g.y - closestY
      wd2   == distX * distX + distY * distY
      wdist == Dist100(wd2)
      wnx   == IF wd2 > 0 THEN Rnd(distX * 100 * Unit, wdist) ELSE 0
      wny   == IF wd2 > 0 THEN Rnd(distY * 100 * Unit, wdist) ELSE -Unit
      dot   == Rnd(g.vx * wnx + g.vy * wny, Unit)
  IN  IF len2 = 0 THEN g
      ELSE IF wd2 < g.radius * g.radius
      THEN [g EXCEPT
              !.x = closestX + Rnd(wnx * g.radius, Unit),
              !.y = closestY + Rnd(wny * g.radius, Unit),
              !.vx = IF dot < 0 THEN g.vx - Rnd(2 * dot * wnx * DAMPING, Unit * 100) ELSE g.vx,
              !.vy = IF dot < 0 THEN g.vy - Rnd(2 * dot * wny * DAMPING, Unit * 100) ELSE g.vy]
      ELSE g

RECURSIVE collideWalls(_, _, _)
collideWalls(g, walls, k) ==
  IF k > Len(walls) THEN g ELSE collideWalls(collideWall(g, walls[k]), walls, k + 1)

\* gravity, friction and integration (dt in ms)
integrate(g, dt) ==
  LET ivy == g.vy + Rnd(GRAVITY * Scale * dt, 1000)
      ivx == Rnd(g.vx * FRICTION, 100)
  IN  [g EXCEPT !.vx = ivx, !.vy = ivy,
                !.x = g.x + Rnd(ivx * dt, 1000),
                !.y = g.y + Rnd(ivy * dt, 1000)]

\* floor collision
collideFloor(g, geo) ==
  IF g.y + g.radius > geo.bottomFloorY
  THEN [g EXCEPT !.y = geo.bottomFloorY - g.radius,
                 !.vy = Rnd(g.vy * (-DAMPING), 100),
                 !.vx = Rnd(g.vx * FRICTION, 100)]
  ELSE g

\* ceiling collision
collideCeiling(g, geo) ==
  IF g.y - g.radius < geo.topCeilingY
  THEN [g EXCEPT !.y = geo.topCeilingY + g.radius,
                 !.vy = Rnd(g.vy * (-DAMPING), 100)]
  ELSE g

\* faulty variant of collidePair that pushes the other grain although it is
\* settled; C29_SettledStays fails under it
collidePairPushesSettled(gs, i, j) ==
  LET g     == gs[i]
      o     == gs[j]
      pdx   == o.x - g.x
      pdy   == o.y - g.y
      pd2   == pdx * pdx + pdy * pdy
      minDist == g.radius + o.radius
      pdist == Dist100(pd2)
      overlap == minDist * 100 - pdist
      pnx   == Rnd(pdx * 100 * Unit, pdist)
      pny   == Rnd(pdy * 100 * Unit, pdist)
      pushX == Rnd(pnx * overlap, Unit * 200)
      pushY == Rnd(pny * overlap, Unit * 200)
      g1    == IF g.settled THEN g
               ELSE [g EXCEPT !.x = g.x - pushX, !.y = g.y - pushY,
                              !.vx = g.vx - Rnd(pnx * overlap * 2, Unit * 100),
                              !.vy = g.vy - Rnd(pny * overlap * 2, Unit * 100)]
      o1    == [o EXCEPT !.x = o.x + pushX, !.y = o.y + pushY]
  IN  IF pd2 < minDist * minDist /\ pd2 > 0
      THEN [gs EXCEPT ![i] = g1, ![j] = o1]
      ELSE gs

\* one iteration of the grain-to-grain loop of _updateGrain: grain i against grain j
collidePair(gs, i, j) ==
  LET g     == gs[i]
      o     == gs[j]
      pdx   == o.x - g.x
      pdy   == o.y - g.y
      pd2   == pdx * pdx + pdy * pdy
      minDist == g.radius + o.radius
      pdist == Dist100(pd2)
      overlap == minDist * 100 - pdist
      pnx   == Rnd(pdx * 100 * Unit, pdist)
      pny   == Rnd(pdy * 100 * Unit, pdist)
      pushX == Rnd(pnx * overlap, Unit * 200)
      pushY == Rnd(pny * overlap, Unit * 200)
      g1    == IF g.settled THEN g
               ELSE [g EXCEPT !.x = g.x - pushX, !.y = g.y - pushY,
                              !.vx = g.vx - Rnd(pnx * overlap * 2, Unit * 100),
                              !.vy = g.vy - Rnd(pny * overlap * 2, Unit * 100)]
      o1    == IF o.settled THEN o
               ELSE [o EXCEPT !.x = o.x + pushX, !.y = o.y + pushY]
  IN  IF pd2 < minDist * minDist /\ pd2 > 0
      THEN [gs EXCEPT ![i] = g1, ![j] = o1]
      ELSE gs

\* the grain-to-grain loop over nearby[lo..hi]
RECURSIVE collideNearby(_, _, _, _, _)
collideNearby(gs, i, nearby, lo, hi) ==
  IF lo > hi THEN gs
  ELSE IF lo = hi THEN collidePair(gs, i, nearby[lo])
  ELSE LET mid   == (lo + hi) \div 2
           first == collideNearby(gs, i, nearby, lo, mid)
       IN  IF Len(first) = 0 THEN first
           ELSE collideNearby(first, i, nearby, mid + 1, hi)

\* faulty variant of settle that returns a settling grain to the reserve;
\* C8_ActiveStays fails under it
settleRetires(gs, i, nearby, geo) ==
  LET g       == gs[i]
      thr     == SETTLE_THRESHOLD * Scale
      slow    == g.vx * g.vx + g.vy * g.vy < thr * thr
      onFloor == g.y + g.radius >= geo.bottomFloorY - Px(1)
  IN  IF g.y > geo.neckBottomY /\ slow /\ onFloor
      THEN [gs EXCEPT ![i] = [g EXCEPT !.settled = TRUE, !.active = FALSE,
                                       !.vx = 0, !.vy = 0]]
      ELSE gs

\* faulty variant of settle that lets a grain rest on any grain below it,
\* settled or not; C30_SettleOnlySupported fails under it
settleOnAny(gs, i, nearby, geo) ==
  LET g       == gs[i]
      thr     == SETTLE_THRESHOLD * Scale
      slow    == g.vx * g.vx + g.vy * g.vy < thr * thr
      onFloor == g.y + g.radius >= geo.bottomFloorY - Px(1)
      Rests(j) ==
        /\ gs[j].y > g.y
        /\ LET reach == g.radius + gs[j].radius + Px(1)
               sdx   == gs[j].x - g.x
               sdy   == gs[j].y - g.y
           IN  sdx * sdx + sdy * sdy < reach * reach
      onGrain == \E k \in 1..Len(nearby) : Rests(nearby[k])
  IN  IF g.y > geo.neckBottomY /\ slow /\ (onFloor \/ onGrain)
      THEN [gs EXCEPT ![i] = [g EXCEPT !.settled = TRUE, !.vx = 0, !.vy = 0]]
      ELSE gs

\* faulty variant of settle that marks the grain settled and leaves it its
\* velocity; C39_OnlyFlyingGrainsMove fails under it
settleKeepsVelocity(gs, i, nearby, geo) ==
  LET g       == gs[i]
      thr     == SETTLE_THRESHOLD * Scale
      slow    == g.vx * g.vx + g.vy * g.vy < thr * thr
      onFloor == g.y + g.radius >= geo.bottomFloorY - Px(1)
      Rests(j) ==
        /\ gs[j].settled
        /\ gs[j].y > g.y
        /\ LET reach == g.radius + gs[j].radius + Px(1)
               sdx   == gs[j].x - g.x
               sdy   == gs[j].y - g.y
           IN  sdx * sdx + sdy * sdy < reach * reach
      onGrain == \E k \in 1..Len(nearby) : Rests(nearby[k])
  IN  IF g.y > geo.neckBottomY /\ slow /\ (onFloor \/ onGrain)
      THEN [gs EXCEPT ![i] = [g EXCEPT !.settled = TRUE]]
      ELSE gs

\* the settling check of _updateGrain
settle(gs, i, nearby, geo) ==
  LET g       == gs[i]
      thr     == SETTLE_THRESHOLD * Scale
      slow    == g.vx * g.vx + g.vy * g.vy < thr * thr
      onFloor == g.y + g.radius >= geo.bottomFloorY - Px(1)
      Rests(j) ==
        /\ gs[j].settled
        /\ gs[j].y > g.y
        /\ LET reach == g.radius + gs[j].radius + Px(1)
               sdx   == gs[j].x - g.x
               sdy   == gs[j].y - g.y
           IN  sdx * sdx + sdy * sdy < reach * reach
      onGrain == \E k \in 1..Len(nearby) : Rests(nearby[k])
  IN  IF g.y > geo.neckBottomY /\ slow /\ (onFloor \/ onGrain)
      THEN [gs EXCEPT ![i] = [g EXCEPT !.settled = TRUE, !.vx = 0, !.vy = 0]]
      ELSE gs

\* _updateGrain for grain i
updateGrain(gs, i, dt, geo, grid) ==
  LET moved  == collideCeiling(
                  collideFloor(
                    collideWalls(integrate(gs[i], dt), geo.walls, 1), geo), geo)
      nearby == getNearby(grid, moved, i)
      gs1    == [gs EXCEPT ![i] = moved]
      gs2    == collideNearby(gs1, i, nearby, 1, Len(nearby))
  IN  settle(gs2, i, nearby, geo)

\* the loop of update over grains lo..hi: the active, unsettled ones are stepped
RECURSIVE updateGrains(_, _, _, _, _, _)
updateGrains(gs, lo, hi, dt, geo, grid) ==
  IF lo > hi THEN gs
  ELSE IF lo = hi
       THEN (IF ~gs[lo].active \/ gs[lo].settled THEN gs
             ELSE updateGrain(gs, lo, dt, geo, grid))
  ELSE LET mid   == (lo + hi) \div 2
           first == updateGrains(gs, lo, mid, dt, geo, grid)
       IN  IF Len(first) = 0 THEN first
           ELSE updateGrains(first, mid + 1, hi, dt, geo, grid)

\* the element of a singleton set
Only(S) == CHOOSE v \in S : TRUE

\* the grains after update(dt, timerElapsedMs): the releases, then the grid built
\* once from the released grains, then the physics loop
updatedGrains(gs, geo, total, released, interval, dt, e, seed) ==
  Only({Only({updateGrains(rel, 1, Len(rel), dt, geo, grid) :
                grid \in {buildSpatialGrid(rel)}}) :
          rel \in {ReleaseLoop(gs, geo, seed, released,
                               ReleaseCount(released, TargetReleased(total, interval, e)))}})

-----------------------------------------------------------------------------
(* The calls *)

\* the number of active grains, and of grains that are active and settled
ActiveCount(gs) == Cardinality({i \in 1..Len(gs) : gs[i].active})
RestingCount(gs) == Cardinality({i \in 1..Len(gs) : gs[i].active /\ gs[i].settled})

\* what a call saw: its name, its arguments, and the state it was made in
Call(name, ms, dt) ==
  [op |-> name, ms |-> ms, dt |-> dt,
   before |-> releasedCount,
   resting |-> RestingCount(grains),
   hadGeometry |-> HasGeometry,
   hadGrains |-> Len(grains) > 0]

NoCall ==
  [op |-> "none", ms |-> 0, dt |-> 0, before |-> 0, resting |-> 0,
   hadGeometry |-> FALSE, hadGrains |-> FALSE]

\* setGeometry(geo)
PS_setGeometry(geo) ==
  /\ geometry' = <<geo>>
  /\ lastCall' = Call("setGeometry", 0, 0)
  /\ calls' = calls + 1
  /\ UNCHANGED <<grains, totalGrains, releasedCount, releaseInterval,
                 lastReleaseTime, elapsedMs, psTotalMs, rngSeed>>

\* faulty variant of PS_init that counts the grains before it looks for the
\* geometry; C12_NoOpWithoutSetup fails under it
PS_initCountsFirst(ms) ==
  /\ releasedCount' = 0
  /\ lastReleaseTime' = 0
  /\ elapsedMs' = 0
  /\ psTotalMs' = ms
  /\ totalGrains' = GrainCount(ms)
  /\ releaseInterval' = FDiv(DoubleOfInt(ms), DoubleOfInt(GrainCount(ms)))
  /\ grains' = IF ~HasGeometry THEN <<>>
               ELSE [i \in 1..GrainCount(ms) |-> NewGrain(Geo, i - 1, rngSeed)]
  /\ lastCall' = Call("init", ms, 0)
  /\ calls' = calls + 1
  /\ UNCHANGED <<geometry, rngSeed>>

\* init(totalMs)
PS_init(ms) ==
  /\ releasedCount' = 0
  /\ lastReleaseTime' = 0
  /\ elapsedMs' = 0
  /\ IF ~HasGeometry
     THEN /\ grains' = <<>>
          /\ UNCHANGED <<totalGrains, releaseInterval, psTotalMs>>
     ELSE /\ psTotalMs' = ms
          /\ totalGrains' = GrainCount(ms)
          /\ releaseInterval' = FDiv(DoubleOfInt(ms), DoubleOfInt(GrainCount(ms)))
          /\ grains' = [i \in 1..GrainCount(ms) |-> NewGrain(Geo, i - 1, rngSeed)]
  /\ lastCall' = Call("init", ms, 0)
  /\ calls' = calls + 1
  /\ UNCHANGED <<geometry, rngSeed>>

\* faulty variant of PS_reset that keeps totalGrains; C13_ResetEmpties fails
\* under it
PS_resetKeepsTotal ==
  /\ grains' = <<>>
  /\ releasedCount' = 0
  /\ lastReleaseTime' = 0
  /\ elapsedMs' = 0
  /\ lastCall' = Call("reset", 0, 0)
  /\ calls' = calls + 1
  /\ UNCHANGED <<geometry, totalGrains, releaseInterval, psTotalMs, rngSeed>>

\* reset()
PS_reset ==
  /\ grains' = <<>>
  /\ releasedCount' = 0
  /\ lastReleaseTime' = 0
  /\ elapsedMs' = 0
  /\ totalGrains' = 0
  /\ lastCall' = Call("reset", 0, 0)
  /\ calls' = calls + 1
  /\ UNCHANGED <<geometry, releaseInterval, psTotalMs, rngSeed>>

\* update(dt, timerElapsedMs)
PS_update(dt, e) ==
  /\ IF ~HasGeometry \/ Len(grains) = 0
     THEN UNCHANGED <<grains, releasedCount, elapsedMs>>
     ELSE /\ elapsedMs' = e
          /\ releasedCount' = releasedCount
               + ReleaseCount(releasedCount, TargetReleased(totalGrains, releaseInterval, e))
          /\ grains' = updatedGrains(grains, Geo, totalGrains, releasedCount,
                                     releaseInterval, dt, e, rngSeed)
  /\ lastCall' = Call("update", e, dt)
  /\ calls' = calls + 1
  /\ UNCHANGED <<geometry, totalGrains, releaseInterval, lastReleaseTime,
                 psTotalMs, rngSeed>>

\* explode()
PS_explode ==
  /\ grains' = explodeGrains(grains, rngSeed)
  /\ lastCall' = Call("explode", 0, 0)
  /\ calls' = calls + 1
  /\ UNCHANGED <<geometry, totalGrains, releasedCount, releaseInterval,
                 lastReleaseTime, elapsedMs, psTotalMs, rngSeed>>

-----------------------------------------------------------------------------
(* ScreenShake (renderer/canvas/effects).  The intensity counts 1/ShakeUnit *)
(* and dt counts 1/ShakeTicks of a second; with these dyadic inputs every   *)
(* value the class computes is exact in IEEE-754, so the integers are the   *)
(* doubles of the program.                                                  *)

ShakeUnit == 32
ShakeTicks == 128
DecayRate == 4      \* _decayRate, per second

\* the 0.5 of offsetX, offsetY and active
ShakeThreshold == ShakeUnit \div 2

\* new ScreenShake()
NoShake == [intensity |-> 0]

\* trigger(intensity)
SS_trigger(sh, intensity) == [sh EXCEPT !.intensity = intensity]

\* update(dt)
SS_update(sh, dt) ==
  [sh EXCEPT !.intensity = Max(0, @ - (DecayRate * dt * ShakeUnit) \div ShakeTicks)]

\* get offsetX, when Math.random() returns r / RandDen: the offset times
\* 2 * RandDen * ShakeUnit, which is 0 exactly when the offset is
SS_offsetX(sh, r) ==
  IF sh.intensity < ShakeThreshold THEN 0 ELSE (2 * r - RandDen) * sh.intensity

\* get offsetY
SS_offsetY(sh, r) ==
  IF sh.intensity < ShakeThreshold THEN 0 ELSE (2 * r - RandDen) * sh.intensity

\* get active
SS_active(sh) == sh.intensity > ShakeThreshold

-----------------------------------------------------------------------------
(* ParticleSystem.update, statement by statement.  step.at is the position  *)
(* in update: "idle" between two calls, "release" in the while loop,        *)
(* "grains" in the for loop, whose next grain is step.i, "nearby" in        *)
(* _updateGrain of that grain after its call of _getNearby; step.target,    *)
(* step.dt, step.grid and step.nearby are targetReleased, dt, _spatialGrid  *)
(* and nearby.                                                              *)

NoStep ==
  [at |-> "idle", target |-> [nan |-> FALSE, val |-> 0], dt |-> 0, grid |-> <<>>,
   i |-> 0, nearby |-> <<>>]

-----------------------------------------------------------------------------
(* HistoryStore.  An object is the sequence of its own properties, each a   *)
(* pair <<key, value>>; a value is <<"string", s>>, <<"number", n>>,        *)
(* <<"uuid", n>> (the n-th string of crypto.randomUUID) or <<"undefined">>. *)
(* The localStorage item is <<>> when absent, <<"text", s>> when it holds   *)
(* text that is not JSON and <<"json", v>> when it holds the JSON text of v.*)

MAX_ENTRIES == 500

\* JSON.stringify of an array of objects: a property whose value is undefined
\* is left out
JsonStringify(es) ==
  <<"json", [i \in 1..Len(es) |->
               SelectSeq(es[i], LAMBDA p : p[2][1] # "undefined")]>>

\* JSON.parse: ok is FALSE when it throws
JsonParse(raw) ==
  IF raw[1] = "json" THEN [ok |-> TRUE, value |-> raw[2]]
  ELSE [ok |-> FALSE, value |-> <<>>]

\* new HistoryStore() over the localStorage item raw (the constructor and
\* _load), uuids strings drawn from crypto.randomUUID so far
HistoryOn(raw, uuids) ==
  [entries |-> IF raw # <<>> /\ raw # <<"text", "">> /\ JsonParse(raw).ok
               THEN JsonParse(raw).value
               ELSE <<>>,
   storage |-> raw,
   uuids |-> uuids]

\* faulty variant of HS_log that keeps the first MAX_ENTRIES entries;
\* C27_AtMostMaxEntries fails under it
HS_logKeepsOldest(h, arg) ==
  Only({
    Only({[entries |-> kept, storage |-> JsonStringify(kept), uuids |-> h.uuids + 1]
          : kept \in {IF Len(pushed) > MAX_ENTRIES
                      THEN SubSeq(pushed, 1, MAX_ENTRIES)
                      ELSE pushed}})
  : pushed \in {Append(h.entries, Append(arg, <<"id", <<"uuid", h.uuids + 1>> >>))}})

\* HistoryStore.log: the entry gets a new UUID and is pushed, the last
\* MAX_ENTRIES entries are kept, and the list is saved
HS_log(h, arg) ==
  Only({
    Only({[entries |-> kept, storage |-> JsonStringify(kept), uuids |-> h.uuids + 1]
          : kept \in {IF Len(pushed) > MAX_ENTRIES
                      THEN SubSeq(pushed, Len(pushed) - MAX_ENTRIES + 1, Len(pushed))
                      ELSE pushed}})
  : pushed \in {Append(h.entries, Append(arg, <<"id", <<"uuid", h.uuids + 1>> >>))}})

\* the value of property k of an object, <<"undefined">> when it has none
Prop(obj, k) ==
  IF \E i \in 1..Len(obj) : obj[i][1] = k
  THEN obj[CHOOSE i \in 1..Len(obj) : obj[i][1] = k][2]
  ELSE <<"undefined">>

\* HistoryStore.getDailyTotal for the day of the entries es: the durations of
\* those whose phase is neither break
RECURSIVE DailyTotalOf(_, _, _)
DailyTotalOf(es, lo, hi) ==
  IF lo > hi THEN 0
  ELSE IF lo = hi
       THEN (IF Prop(es[lo], "phase") \in {<<"string", "shortBreak">>,
                                           <<"string", "longBreak">>}
             THEN 0 ELSE Prop(es[lo], "durationMs")[2])
  ELSE DailyTotalOf(es, lo, (lo + hi) \div 2)
         + DailyTotalOf(es, (lo + hi) \div 2 + 1, hi)

HS_getDailyTotal(h) == DailyTotalOf(h.entries, 1, Len(h.entries))

-----------------------------------------------------------------------------
(* TimerState, PomodoroState, the scalar fields of HourglassRenderer and    *)
(* the listeners of renderer/index.ts.  They call each other synchronously, *)
(* so each is an operator from the record of all their fields to that       *)
(* record; the calls a handler makes on the ParticleSystem are queued in    *)
(* cmds, in order, and applied by the action that runs the handler.         *)
(* performance.now() is read only through now - _startTime, which is the    *)
(* field sinceStart.  A progress value p is the fraction <<num, den>>.      *)

DEFAULT_WORK_MS == 25 * 60 * 1000
SHORT_BREAK_MS == 5 * 60 * 1000
LONG_BREAK_MS == 15 * 60 * 1000
CYCLES_BEFORE_LONG == 4

RunMs == 60000     \* the timer's duration
RunDt == 50        \* the frame time, ms (the renderer caps dt at 0.05 s)
RunStep == 300     \* timer progress per frame when it advances: one release interval

\* nothing painted yet
NoCanvas == [topSand |-> <<>>, arcs |-> <<>>, phase |-> "none", glow |-> "none"]

NoTask == <<"", 0>>
NoProgress == <<0, 1>>

\* the fields after construction; wired: the listeners of index.ts are attached
AppInit(wired, selected) ==
  [wired |-> wired,
   \* TimerState
   status |-> "idle", taskName |-> NoTask, totalMs |-> 0, remainingMs |-> 0,
   sinceStart |-> 0, elapsedBefore |-> 0, rafPending |-> FALSE,
   \* PomodoroState
   phase |-> "work", cycleIndex |-> 1, totalCyclesToday |-> 0,
   active |-> FALSE, workMs |-> DEFAULT_WORK_MS,
   \* index.ts and the controls
   mode |-> "free", selectedMs |-> selected, overlay |-> "none",
   \* HourglassRenderer
   rProgress |-> NoProgress, rStatus |-> "idle", rPhase |-> "none",
   rTotalMs |-> 0, alarmActive |-> FALSE,
   \* AlarmSynth: whether the alarm loop is playing
   synthLooping |-> FALSE,
   \* history: the timerElapsedMs values passed to update since the last init,
   \* the number of frames so far, and the time the timer spent running since
   \* the last configure, restart or reset
   fed |-> <<>>, frames |-> 0, ranMs |-> 0,
   \* history: the 'finished' events emitted since the last configure, restart
   \* or reset
   finishes |-> 0,
   \* what the handler in progress did: pomodoro events emitted, timer events
   \* emitted, calls of timer.configure, calls on the ParticleSystem, and the
   \* objects passed to history.log
   events |-> <<>>, tevents |-> <<>>, configures |-> 0, cmds |-> <<>>, logged |-> <<>>]

\* the start of a handler
Begin(c) ==
  [c EXCEPT !.events = <<>>, !.tevents = <<>>, !.configures = 0, !.cmds = <<>>,
            !.logged = <<>>]

PsCmd(name, ms, dt) == [op |-> name, ms |-> ms, dt |-> dt]

\* HourglassRenderer.initTimer
HR_initTimer(c, ms) ==
  [c EXCEPT !.rTotalMs = ms,
            !.cmds = Append(@, PsCmd("init", ms, 0)),
            !.fed = <<>>,
            !.rProgress = NoProgress,
            !.alarmActive = FALSE]

\* HourglassRenderer.setProgress
HR_setProgress(c, p) == [c EXCEPT !.rProgress = p]

\* HourglassRenderer.setStatus
HR_setStatus(c, s) ==
  IF s = "finished"
  THEN [c EXCEPT !.rStatus = s, !.alarmActive = TRUE,
                 !.cmds = Append(@, PsCmd("explode", 0, 0))]
  ELSE [c EXCEPT !.rStatus = s]

\* HourglassRenderer.setPhase
HR_setPhase(c, ph) == [c EXCEPT !.rPhase = ph]

\* HourglassRenderer.stopAlarm
HR_stopAlarm(c) == [c EXCEPT !.alarmActive = FALSE]

\* AlarmSynth.play and AlarmSynth.stop
AS_play(c) == [c EXCEPT !.synthLooping = TRUE]
AS_stop(c) == [c EXCEPT !.synthLooping = FALSE]

\* this._progress * this._totalMs; the product is taken in seconds of the
\* total when the renderer's total is not the one the progress was taken of
ElapsedOf(c) ==
  IF c.rProgress[2] = c.rTotalMs THEN c.rProgress[1]
  ELSE (c.rProgress[1] * (c.rTotalMs \div 1000)) \div Max(1, c.rProgress[2] \div 1000)

\* the updates of HourglassRenderer._loop, for a frame of dt ms
HR_loop(c0, dt) ==
  Only({
    Only({
      IF c1.alarmActive
      THEN [c1 EXCEPT !.cmds = Append(@, PsCmd("update", c1.rTotalMs, dt)),
                      !.fed = Append(@, c1.rTotalMs)]
      ELSE c1
    : c1 \in {IF c.rStatus = "running"
              THEN [c EXCEPT !.cmds = Append(@, PsCmd("update", ElapsedOf(c), dt)),
                             !.fed = Append(@, ElapsedOf(c))]
              ELSE c}})
  : c \in {c0}})

\* TimerState.snapshot
\* faulty variant of T_snapshot whose progress is the fraction that remains;
\* C26_RemainingInRange fails under it
T_snapshotRemaining(c) ==
  [status |-> c.status, taskName |-> c.taskName, totalMs |-> c.totalMs,
   remainingMs |-> c.remainingMs,
   progress |-> IF c.totalMs > 0 THEN <<c.remainingMs, c.totalMs>>
                ELSE NoProgress]

T_snapshot(c) ==
  [status |-> c.status, taskName |-> c.taskName, totalMs |-> c.totalMs,
   remainingMs |-> c.remainingMs,
   progress |-> IF c.totalMs > 0 THEN <<c.totalMs - c.remainingMs, c.totalMs>>
                ELSE NoProgress]

RECURSIVE T_emit(_, _)
RECURSIVE T_tick(_)

\* TimerState.configure
T_configure(c, name, ms) ==
  T_emit([c EXCEPT !.rafPending = FALSE, !.status = "idle",
                   !.elapsedBefore = 0, !.sinceStart = 0,
                   !.taskName = name, !.totalMs = ms, !.remainingMs = ms,
                   !.configures = @ + 1, !.ranMs = 0, !.finishes = 0],
         "stateChange")

\* faulty variant of T_start without its guard; C25_StartPauseOrFinish fails
\* under it
T_startUnguarded(c0) ==
  Only({
    T_tick(T_emit([c EXCEPT !.status = "running", !.sinceStart = 0], "stateChange"))
  : c \in {c0}})

\* TimerState.start
T_start(c0) ==
  Only({
    IF c.status = "running" \/ c.totalMs <= 0 THEN c
    ELSE T_tick(T_emit([c EXCEPT !.status = "running", !.sinceStart = 0],
                       "stateChange"))
  : c \in {c0}})

\* TimerState.pause
T_pause(c0) ==
  Only({
    IF c.status # "running" THEN c
    ELSE T_emit([c EXCEPT !.rafPending = FALSE,
                          !.elapsedBefore = @ + c.sinceStart,
                          !.status = "paused"],
                "stateChange")
  : c \in {c0}})

\* TimerState.reset
T_reset(c) ==
  T_emit([c EXCEPT !.rafPending = FALSE, !.status = "idle",
                   !.taskName = NoTask, !.totalMs = 0, !.remainingMs = 0,
                   !.elapsedBefore = 0, !.sinceStart = 0, !.ranMs = 0, !.finishes = 0],
         "stateChange")

\* TimerState.restart; without an argument ms is the duration the timer has
T_restart(c, ms) ==
  T_emit([c EXCEPT !.rafPending = FALSE, !.totalMs = ms, !.remainingMs = ms,
                   !.elapsedBefore = 0, !.sinceStart = 0, !.status = "idle",
                   !.ranMs = 0, !.finishes = 0],
         "stateChange")

\* PomodoroState.snapshot
P_snapshot(c) ==
  [phase |-> c.phase, cycleIndex |-> c.cycleIndex,
   totalCyclesToday |-> c.totalCyclesToday]

\* faulty variant of P_phaseDurationMs with the two break durations exchanged;
\* C22_TimerConfigured fails under it
P_phaseDurationMsSwapped(c) ==
  CASE c.phase = "work" -> c.workMs
    [] c.phase = "shortBreak" -> LONG_BREAK_MS
    [] c.phase = "longBreak" -> SHORT_BREAK_MS

\* PomodoroState.phaseDurationMs
P_phaseDurationMs(c) ==
  CASE c.phase = "work" -> c.workMs
    [] c.phase = "shortBreak" -> SHORT_BREAK_MS
    [] c.phase = "longBreak" -> LONG_BREAK_MS

\* the task name of the current phase
P_taskName(c) ==
  CASE c.phase = "work" -> <<"Pomodoro #", c.cycleIndex>>
    [] c.phase = "shortBreak" -> <<"Short Break", 0>>
    [] c.phase = "longBreak" -> <<"Long Break", 0>>

\* PomodoroState.startNextPhase
P_startNextPhase(c) == T_start(c)

\* index.ts: pomodoro.on('phaseChange', ...)
OnPhaseChange(c0, snap) ==
  Only({
    IF snap.phase \in {"shortBreak", "longBreak"}
    THEN [c1 EXCEPT !.overlay = snap.phase]
    ELSE P_startNextPhase([c1 EXCEPT !.overlay = "none"])
  : c1 \in {HR_initTimer(HR_setPhase(c, snap.phase), P_phaseDurationMs(c)) : c \in {c0}}})

\* PomodoroState._emit: the event and its snapshot are recorded, then the
\* listeners run
P_emit(c0, ev) ==
  Only({
    IF ev = "phaseChange" /\ c.wired
    THEN OnPhaseChange([c EXCEPT !.events = Append(@, [ev |-> ev, snap |-> P_snapshot(c)])],
                       P_snapshot(c))
    ELSE [c EXCEPT !.events = Append(@, [ev |-> ev, snap |-> P_snapshot(c)])]
  : c \in {c0}})

\* PomodoroState._setupPhase
P_setupPhase(c0) ==
  Only({
    P_emit(T_configure(c, P_taskName(c), P_phaseDurationMs(c)), "phaseChange")
  : c \in {c0}})

\* faulty variant of P_onPhaseComplete that goes to the long break after the
\* third work session; C17_PhaseStep fails under it
P_onPhaseCompleteEarly(c0) ==
  Only({
    IF c.phase = "work"
    THEN IF c.cycleIndex >= CYCLES_BEFORE_LONG - 1
         THEN P_setupPhase(P_emit([c EXCEPT !.totalCyclesToday = @ + 1,
                                            !.phase = "longBreak"],
                                  "cycleComplete"))
         ELSE P_setupPhase([c EXCEPT !.totalCyclesToday = @ + 1,
                                     !.phase = "shortBreak"])
    ELSE P_setupPhase([c EXCEPT !.cycleIndex = IF c.phase = "longBreak" THEN 1 ELSE @ + 1,
                                !.phase = "work"])
  : c \in {c0}})

\* faulty variant of P_onPhaseComplete that emits cycleComplete before it
\* changes the phase; C19_CycleComplete fails under it
P_onPhaseCompleteEmitsFirst(c0) ==
  Only({
    IF c.phase = "work"
    THEN IF c.cycleIndex >= CYCLES_BEFORE_LONG
         THEN P_setupPhase([P_emit([c EXCEPT !.totalCyclesToday = @ + 1], "cycleComplete")
                              EXCEPT !.phase = "longBreak"])
         ELSE P_setupPhase([c EXCEPT !.totalCyclesToday = @ + 1,
                                     !.phase = "shortBreak"])
    ELSE P_setupPhase([c EXCEPT !.cycleIndex = IF c.phase = "longBreak" THEN 1 ELSE @ + 1,
                                !.phase = "work"])
  : c \in {c0}})

\* faulty variant of P_onPhaseComplete that counts on after the long break
\* instead of starting the cycle again; C38_CycleIndexRange fails under it
P_onPhaseCompleteCountsOn(c0) ==
  Only({
    IF c.phase = "work"
    THEN IF c.cycleIndex >= CYCLES_BEFORE_LONG
         THEN P_setupPhase(P_emit([c EXCEPT !.totalCyclesToday = @ + 1,
                                            !.phase = "longBreak"],
                                  "cycleComplete"))
         ELSE P_setupPhase([c EXCEPT !.totalCyclesToday = @ + 1,
                                     !.phase = "shortBreak"])
    ELSE P_setupPhase([c EXCEPT !.cycleIndex = @ + 1, !.phase = "work"])
  : c \in {c0}})

\* PomodoroState._onPhaseComplete
P_onPhaseComplete(c0) ==
  Only({
    IF c.phase = "work"
    THEN IF c.cycleIndex >= CYCLES_BEFORE_LONG
         THEN P_setupPhase(P_emit([c EXCEPT !.totalCyclesToday = @ + 1,
                                            !.phase = "longBreak"],
                                  "cycleComplete"))
         ELSE P_setupPhase([c EXCEPT !.totalCyclesToday = @ + 1,
                                     !.phase = "shortBreak"])
    ELSE P_setupPhase([c EXCEPT !.cycleIndex = IF c.phase = "longBreak" THEN 1 ELSE @ + 1,
                                !.phase = "work"])
  : c \in {c0}})

\* faulty variant of P_onTimerFinished that does not look at _active;
\* C20_InactiveIgnores fails under it
P_onTimerFinishedAlways(c0) == P_onPhaseComplete(c0)

\* the listener PomodoroState registers on the timer's 'finished'
P_onTimerFinished(c0) ==
  Only({IF ~c.active THEN c ELSE P_onPhaseComplete(c) : c \in {c0}})

\* faulty variant of P_activate that starts the count of the day again;
\* C21_CyclesCount fails under it
P_activateResetsCount(c0) ==
  Only({
    T_configure(c1, P_taskName(c1), P_phaseDurationMs(c1))
  : c1 \in {[c0 EXCEPT !.active = TRUE, !.phase = "work", !.cycleIndex = 1,
                        !.totalCyclesToday = 0]}})

\* PomodoroState.activate
P_activate(c0) ==
  Only({
    T_configure(c1, P_taskName(c1), P_phaseDurationMs(c1))
  : c1 \in {[c0 EXCEPT !.active = TRUE, !.phase = "work", !.cycleIndex = 1]}})

\* PomodoroState.deactivate
P_deactivate(c) == T_reset([c EXCEPT !.active = FALSE])

\* PomodoroState.setWorkDuration
P_setWorkDuration(c0, ms) ==
  Only({
    IF c1.active /\ c1.phase = "work" /\ c1.status = "idle"
    THEN T_configure(c1, P_taskName(c1), c1.workMs)
    ELSE c1
  : c1 \in {[c0 EXCEPT !.workMs = ms]}})

\* index.ts: timer.on('tick', ...)
OnTimerTick(c, snap) == HR_setProgress(c, snap.progress)

\* index.ts: timer.on('stateChange', ...)
OnTimerStateChange(c, snap) == HR_setStatus(c, snap.status)

\* index.ts: timer.on('finished', ...): the entry is logged with the phase
\* the PomodoroState has when this listener runs
OnTimerFinished(c, snap) ==
  HR_setStatus(
    AS_play([c EXCEPT !.logged = Append(@,
               << <<"taskName", <<"task", snap.taskName>> >>,
                  <<"durationMs", <<"number", snap.totalMs>> >>,
                  <<"mode", <<"string", c.mode>> >>,
                  <<"phase", IF c.mode = "pomodoro" THEN <<"string", c.phase>>
                             ELSE <<"undefined">> >>,
                  <<"completedAt", <<"string", "2025-02-20T14:30:00.000Z">> >> >>)]),
    "finished")

\* TimerState._emit: the listeners of the event, in the order they registered
T_emit(c0, ev) ==
  Only({
    CASE ev = "tick" ->
           IF c.wired THEN OnTimerTick(c, T_snapshot(c)) ELSE c
      [] ev = "stateChange" ->
           IF c.wired THEN OnTimerStateChange(c, T_snapshot(c)) ELSE c
      [] ev = "finished" ->
           IF c.wired THEN OnTimerFinished(P_onTimerFinished(c), T_snapshot(c))
           ELSE P_onTimerFinished(c)
  : c \in {[c0 EXCEPT !.tevents = Append(@, ev)]}})

\* faulty variant of T_tick that asks for another frame after it finished;
\* C23_FinishOnce fails under it
T_tickReschedules(c0) ==
  Only({
    IF c.status # "running" THEN c
    ELSE Only({
           IF c1.remainingMs <= 0
           THEN [T_emit(T_emit([c1 EXCEPT !.remainingMs = 0, !.status = "finished",
                                          !.finishes = @ + 1],
                               "stateChange"),
                        "finished")
                   EXCEPT !.rafPending = TRUE]
           ELSE [c1 EXCEPT !.rafPending = TRUE]
         : c1 \in {T_emit([c EXCEPT !.remainingMs =
                                      Max(0, c.totalMs - (c.elapsedBefore + c.sinceStart)),
                                    !.rafPending = FALSE],
                          "tick")}})
  : c \in {c0}})

\* TimerState._tick, the animation-frame callback of the running timer
T_tick(c0) ==
  Only({
    IF c.status # "running" THEN c
    ELSE Only({
           IF c1.remainingMs <= 0
           THEN T_emit(T_emit([c1 EXCEPT !.remainingMs = 0, !.status = "finished",
                                         !.finishes = @ + 1],
                              "stateChange"),
                       "finished")
           ELSE [c1 EXCEPT !.rafPending = TRUE]
         : c1 \in {T_emit([c EXCEPT !.remainingMs =
                                      Max(0, c.totalMs - (c.elapsedBefore + c.sinceStart)),
                                    !.rafPending = FALSE],
                          "tick")}})
  : c \in {c0}})

\* the start of a countdown in free mode, by onStart and by toggleTimer
App_startFree(c0, name) ==
  Only({
    T_start(HR_setPhase(HR_initTimer(T_configure(c, name, c.selectedMs), c.selectedMs),
                        "none"))
  : c \in {c0}})

\* index.ts: the onStart callback of the timer controls
App_onStart(c0) ==
  Only({
    IF c.mode = "pomodoro" THEN T_start(c) ELSE App_startFree(c, <<"task", 0>>)
  : c \in {c0}})

\* index.ts: resetTimer, and the onReset callback, which has the same body
App_resetTimer(c0) ==
  Only({
    IF c1.mode = "pomodoro"
    THEN Only({HR_setPhase(HR_initTimer(c2, P_phaseDurationMs(c2)), c2.phase)
               : c2 \in {P_activate(c1)}})
    ELSE HR_initTimer(c1, 0)
  : c1 \in {HR_setStatus(HR_setProgress(T_reset(HR_stopAlarm(AS_stop(c0))), NoProgress),
                          "idle")}})

\* index.ts: the onDurationChange callback
App_onDurationChange(c0, ms) ==
  Only({
    IF c.mode = "pomodoro"
    THEN Only({IF c1.status = "idle" THEN HR_initTimer(c1, P_phaseDurationMs(c1)) ELSE c1
               : c1 \in {P_setWorkDuration(c, ms)}})
    ELSE c
  : c \in {[c0 EXCEPT !.selectedMs = ms]}})

\* index.ts: the onActivate callback of the pomodoro controls
App_onActivate(c0) ==
  Only({
    HR_setPhase(HR_initTimer(c1, P_phaseDurationMs(c1)), c1.phase)
  : c1 \in {P_activate(P_setWorkDuration(HR_stopAlarm(AS_stop([c EXCEPT !.mode = "pomodoro"])),
                                         c.selectedMs)) : c \in {c0}}})

\* index.ts: the onDeactivate callback
App_onDeactivate(c) ==
  HR_initTimer(
    HR_setPhase(
      HR_setStatus(
        HR_setProgress(HR_stopAlarm(P_deactivate([c EXCEPT !.mode = "free"])), NoProgress),
        "idle"),
      "none"),
    0)

\* index.ts: the onDismissBreak callback; the overlay closes
App_onDismissBreak(c) ==
  P_startNextPhase(HR_stopAlarm(AS_stop([c EXCEPT !.overlay = "none"])))

\* index.ts: toggleTimer
App_toggleTimer(c0) ==
  Only({
    CASE c.status \in {"idle", "finished"} ->
           Only({IF c1.mode = "pomodoro" THEN T_start(c1)
                 ELSE App_startFree(c1, <<"Focus", 0>>)
                 : c1 \in {IF c.status = "finished" THEN App_resetTimer(c) ELSE c}})
      [] c.status = "running" -> T_pause(c)
      [] c.status = "paused" -> T_start(c)
  : c \in {c0}})

-----------------------------------------------------------------------------
(* Spec: any MaxCalls calls on a new ParticleSystem *)

Init ==
  /\ grains = <<>>
  /\ geometry = <<>>
  /\ totalGrains = 0
  /\ releasedCount = 0
  /\ releaseInterval = DZero(FALSE)
  /\ lastReleaseTime = 0
  /\ elapsedMs = 0
  /\ psTotalMs = 0
  /\ rngSeed \in Seeds
  /\ lastCall = NoCall
  /\ calls = 0
  /\ app = AppInit(TRUE, RunMs)
  /\ canvas = NoCanvas
  /\ history = HistoryOn(<<>>, 0)
  /\ step = NoStep
  /\ shake = NoShake
  /\ loopAt = "idle"

SetGeometry == \E geo \in Geometries : PS_setGeometry(geo)
InitTimer == \E ms \in Durations : PS_init(ms)
Reset == PS_reset
Update == \E dt \in Dts, e \in Elapsed : PS_update(dt, e)
Explode == PS_explode

\* reset() called twice in a row; the second call may be one past the bound
ResetAgain == lastCall.op = "reset" /\ PS_reset

Next ==
  /\ \/ /\ calls < MaxCalls
        /\ (SetGeometry \/ InitTimer \/ Reset \/ Update \/ Explode)
     \/ /\ calls = MaxCalls
        /\ ResetAgain
  /\ UNCHANGED <<app, canvas, loopAt, history, step, shake>>

Spec == Init /\ [][Next]_vars

-----------------------------------------------------------------------------
(* SpecRun: a one-minute timer on GeoSquat, frame by frame: the sand falls  *)
(* one grain per release interval, comes to rest, and may be exploded       *)

InitRun ==
  /\ rngSeed \in Seeds
  /\ grains = [i \in 1..GrainCount(RunMs) |-> NewGrain(GeoSquat, i - 1, rngSeed)]
  /\ geometry = <<GeoSquat>>
  /\ totalGrains = GrainCount(RunMs)
  /\ releasedCount = 0
  /\ releaseInterval = FDiv(DoubleOfInt(RunMs), DoubleOfInt(GrainCount(RunMs)))
  /\ lastReleaseTime = 0
  /\ elapsedMs = 0
  /\ psTotalMs = RunMs
  /\ lastCall = [NoCall EXCEPT !.op = "init", !.ms = RunMs, !.hadGeometry = TRUE]
  /\ calls = 0
  /\ app = AppInit(TRUE, RunMs)
  /\ canvas = NoCanvas
  /\ history = HistoryOn(<<>>, 0)
  /\ step = NoStep
  /\ shake = NoShake
  /\ loopAt = "idle"

\* a frame while the timer runs: it has stalled or advanced by RunStep
RunUpdate == \E e \in {elapsedMs, elapsedMs + RunStep} : PS_update(RunDt, e)

\* the frame in which the timer is found complete, long overdue; taken only
\* by runs whose timer advanced in every frame so far
RunFinish ==
  /\ elapsedMs = calls * RunStep
  /\ PS_update(RunDt, 2 * RunMs)

RunExplode == PS_explode

\* a frame after the timer completed, while the alarm is active:
\* update(dt, totalMs)
RunAlarm == PS_update(RunDt, RunMs)

\* frames while the timer runs, then frames of the alarm
NextRun ==
  /\ calls < MaxFrames
  /\ \/ /\ elapsedMs < RunMs
        /\ (RunUpdate \/ RunFinish \/ RunExplode)
     \/ /\ elapsedMs >= RunMs
        /\ RunAlarm
  /\ UNCHANGED <<app, canvas, loopAt, history, step, shake>>

SpecRun == InitRun /\ [][NextRun]_vars

-----------------------------------------------------------------------------
(* The ParticleSystem as the renderer drives it: its fields as a record,    *)
(* and the calls queued by a handler applied in order                       *)

psFields ==
  [grains |-> grains, totalGrains |-> totalGrains, releasedCount |-> releasedCount,
   releaseInterval |-> releaseInterval, lastReleaseTime |-> lastReleaseTime,
   elapsedMs |-> elapsedMs, psTotalMs |-> psTotalMs]

\* init or explode on a ParticleSystem whose geometry is set: the calls a
\* handler of the application can make
PsApply(ps, geo, cmd, seed) ==
  IF cmd.op = "init"
  THEN [grains |-> SubSeq([i \in 1..GrainCount(cmd.ms) |-> NewGrain(geo, i - 1, seed)],
                          1, GrainCount(cmd.ms)),
        totalGrains |-> GrainCount(cmd.ms),
        releasedCount |-> 0,
        releaseInterval |-> FDiv(DoubleOfInt(cmd.ms), DoubleOfInt(GrainCount(cmd.ms))),
        lastReleaseTime |-> 0,
        elapsedMs |-> 0,
        psTotalMs |-> cmd.ms]
  ELSE [ps EXCEPT !.grains = SubSeq(explodeGrains(ps.grains, seed), 1, Len(ps.grains))]

RECURSIVE PsApplyAll(_, _, _, _)
PsApplyAll(ps, geo, cmds, seed) ==
  IF Len(cmds) = 0 THEN ps
  ELSE Only({PsApplyAll(p1, geo, Tail(cmds), seed) :
               p1 \in {PsApply(ps, geo, Head(cmds), seed)}})

\* the calls of update that one pass of _loop makes, in order
RECURSIVE PsUpdateAll(_, _, _, _)
PsUpdateAll(ps, geo, cmds, seed) ==
  IF Len(cmds) = 0 THEN ps
  ELSE Only({PsUpdateAll(p1, geo, Tail(cmds), seed) :
               p1 \in {IF Len(ps.grains) = 0 THEN ps
                       ELSE [ps EXCEPT
                               !.elapsedMs = Head(cmds).ms,
                               !.releasedCount =
                                 @ + ReleaseCount(ps.releasedCount,
                                       TargetReleased(ps.totalGrains, ps.releaseInterval,
                                                      Head(cmds).ms)),
                               !.grains =
                                 updatedGrains(ps.grains, geo, ps.totalGrains,
                                               ps.releasedCount, ps.releaseInterval,
                                               Head(cmds).dt, Head(cmds).ms, seed)]}})

\* faulty variant of HR_draw that stores the fill style in the grains it draws;
\* C15_DrawIsPure fails under it
HR_drawCachesColor(gs, total, released, c) ==
  LET remaining == total - released
  IN  [grains |-> [i \in 1..Len(gs) |->
                     IF gs[i].active THEN [gs[i] EXCEPT !.color = "sand"] ELSE gs[i]],
       canvas |->
         [topSand |-> IF remaining <= 0 \/ total <= 0 THEN <<>> ELSE <<remaining, total>>,
          arcs |-> Only({[k \in 1..Len(idx) |->
                            [x |-> gs[idx[k]].x, y |-> gs[idx[k]].y,
                             radius |-> gs[idx[k]].radius,
                             colorOffset |-> gs[idx[k]].colorOffset]]
                         : idx \in {SelectSeq([i \in 1..Len(gs) |-> i],
                                              LAMBDA i : gs[i].active)}}),
          phase |-> c.rPhase,
          glow |-> IF c.rStatus = "idle" THEN "breath"
                   ELSE IF c.alarmActive THEN "alarm"
                   ELSE IF c.rProgress[1] * 10 > c.rProgress[2] * 8 THEN "pulse"
                   ELSE "steady"]]

\* HourglassRenderer._draw: the grains it leaves and what it paints: the sand
\* level of the top bulb (_drawTopSand), one arc per active grain, the glow
HR_draw(gs, total, released, c) ==
  LET remaining == total - released
  IN  [grains |-> gs,
       canvas |->
         [topSand |-> IF remaining <= 0 \/ total <= 0 THEN <<>> ELSE <<remaining, total>>,
          arcs |-> Only({[k \in 1..Len(idx) |->
                            [x |-> gs[idx[k]].x, y |-> gs[idx[k]].y,
                             radius |-> gs[idx[k]].radius,
                             colorOffset |-> gs[idx[k]].colorOffset]]
                         : idx \in {SelectSeq([i \in 1..Len(gs) |-> i],
                                              LAMBDA i : gs[i].active)}}),
          phase |-> c.rPhase,
          glow |-> IF c.rStatus = "idle" THEN "breath"
                   ELSE IF c.alarmActive THEN "alarm"
                   ELSE IF c.rProgress[1] * 10 > c.rProgress[2] * 8 THEN "pulse"
                   ELSE "steady"]]

-----------------------------------------------------------------------------
(* SpecApp: the application of renderer/index.ts: MaxAppCalls handlers (the *)
(* controls, the keyboard, the timer's animation-frame callback), then      *)
(* MaxAppFrames frames of the renderer's loop                               *)

\* durations the controls offer
AppDurations == {RunMs, 2 * RunMs}

\* elapsed time up to which the timer's callback may come RunStep after the
\* previous one; past it the callback comes when the countdown is over
TickWindow == 2 * RunStep

\* the time between two callbacks of the timer
TickDeltas(c) ==
  (IF c.elapsedBefore + c.sinceStart < TickWindow THEN {RunStep} ELSE {})
    \cup {c.totalMs}

\* the particle variables take the fields of ps
PsStore(ps) ==
  /\ grains' = ps.grains
  /\ totalGrains' = ps.totalGrains
  /\ releasedCount' = ps.releasedCount
  /\ releaseInterval' = ps.releaseInterval
  /\ lastReleaseTime' = ps.lastReleaseTime
  /\ elapsedMs' = ps.elapsedMs
  /\ psTotalMs' = ps.psTotalMs

\* a handler of the application ran and left the fields c2
AppDo(c2) ==
  /\ calls < MaxAppCalls
  /\ loopAt = "idle"
  /\ \E c \in {c2} :
       /\ app' = Begin(c)
       /\ \E ps \in {PsApplyAll(psFields, Geo, c.cmds, rngSeed)} : PsStore(ps)
  /\ lastCall' = [NoCall EXCEPT !.op = "handler"]
  /\ calls' = calls + 1
  /\ UNCHANGED <<geometry, rngSeed, canvas, loopAt, history, step, shake>>

AppStart == app.status = "idle" /\ AppDo(App_onStart(Begin(app)))
AppPause == app.status = "running" /\ AppDo(T_pause(Begin(app)))
AppResume == app.status = "paused" /\ AppDo(T_start(Begin(app)))
AppReset == loopAt = "idle" /\ AppDo(App_resetTimer(Begin(app)))
AppDurationChange ==
  \E ms \in AppDurations \ {app.selectedMs} :
    AppDo(App_onDurationChange(Begin(app), ms))
AppActivate == app.mode = "free" /\ AppDo(App_onActivate(Begin(app)))
AppDeactivate == app.mode = "pomodoro" /\ AppDo(App_onDeactivate(Begin(app)))
AppDismissBreak ==
  app.overlay # "none" /\ AppDo(App_onDismissBreak(Begin(app)))
AppToggle == loopAt = "idle" /\ AppDo(App_toggleTimer(Begin(app)))

\* the timer's animation-frame callback, delta ms after the previous one
AppTick ==
  /\ app.rafPending
  /\ \E delta \in TickDeltas(app) :
       AppDo(T_tick([Begin(app) EXCEPT !.sinceStart = @ + delta, !.ranMs = @ + delta]))

\* the renderer's animation-frame callback _loop, up to its call of _draw
AppFrame ==
  /\ calls = MaxAppCalls
  /\ app.frames < MaxAppFrames
  /\ loopAt = "idle"
  /\ \E c \in {HR_loop(Begin(app), RunDt)} :
       /\ app' = [Begin(c) EXCEPT !.frames = @ + 1]
       /\ \E ps \in {PsUpdateAll(psFields, Geo, c.cmds, rngSeed)} : PsStore(ps)
  /\ loopAt' = "draw"
  /\ lastCall' = [NoCall EXCEPT !.op = "frame"]
  /\ UNCHANGED <<geometry, rngSeed, canvas, calls, history, step, shake>>

\* the call of _draw that ends _loop
AppDraw ==
  /\ loopAt = "draw"
  /\ \E d \in {HR_draw(grains, totalGrains, releasedCount, app)} :
       /\ grains' = d.grains
       /\ canvas' = d.canvas
  /\ loopAt' = "idle"
  /\ lastCall' = [lastCall EXCEPT !.op = "draw"]
  /\ UNCHANGED <<geometry, totalGrains, releasedCount, releaseInterval, lastReleaseTime,
                 elapsedMs, psTotalMs, rngSeed, calls, app, history, step, shake>>

InitApp ==
  /\ rngSeed = 0
  /\ grains = <<>>
  /\ geometry = <<GeoTall>>
  /\ totalGrains = 0
  /\ releasedCount = 0
  /\ releaseInterval = DZero(FALSE)
  /\ lastReleaseTime = 0
  /\ elapsedMs = 0
  /\ psTotalMs = 0
  /\ lastCall = NoCall
  /\ calls = 0
  /\ app = AppInit(TRUE, RunMs)
  /\ canvas = NoCanvas
  /\ history = HistoryOn(<<>>, 0)
  /\ step = NoStep
  /\ shake = NoShake
  /\ loopAt = "idle"

NextApp ==
  \/ AppStart \/ AppPause \/ AppResume \/ AppReset \/ AppDurationChange
  \/ AppActivate \/ AppDeactivate \/ AppDismissBreak \/ AppToggle
  \/ AppTick
  \/ AppFrame
  \/ AppDraw

SpecApp == InitApp /\ [][NextApp]_vars

-----------------------------------------------------------------------------
(* SpecHistory: a HistoryStore over a localStorage item left by earlier     *)
(* runs, up to MaxLogs calls of log                                         *)

MaxLogs == 3

\* the numbers of entries earlier runs left in the item
StoredLens == {0, MAX_ENTRIES - 1, MAX_ENTRIES}

\* the entries the item holds after n calls of log({taskName, durationMs,
\* mode, completedAt}) on an empty store
StoredEntries(n) ==
  [i \in 1..n |->
     << <<"taskName", <<"string", "Task">> >>, <<"durationMs", <<"number", 1000>> >>,
        <<"mode", <<"string", "free">> >>,
        <<"completedAt", <<"string", "2025-01-01T00:00:00Z">> >>,
        <<"id", <<"uuid", i>> >> >>]

\* the arguments of log: as index.ts passes them in free mode (phase:
\* undefined) and in pomodoro mode, and with no phase property
LogArgs ==
  { << <<"taskName", <<"string", "Focus">> >>, <<"durationMs", <<"number", 60000>> >>,
       <<"mode", <<"string", "free">> >>, <<"phase", <<"undefined">> >>,
       <<"completedAt", <<"string", "2025-02-20T14:30:00.000Z">> >> >>,
    << <<"taskName", <<"string", "Pomodoro #1">> >>,
       <<"durationMs", <<"number", 1500000>> >>,
       <<"mode", <<"string", "pomodoro">> >>, <<"phase", <<"string", "work">> >>,
       <<"completedAt", <<"string", "2025-02-20T14:30:00.000Z">> >> >>,
    << <<"taskName", <<"string", "Test Task">> >>,
       <<"durationMs", <<"number", 1500000>> >>,
       <<"mode", <<"string", "free">> >>,
       <<"completedAt", <<"string", "2025-02-20T14:30:00.000Z">> >> >> }

\* a method of the HistoryStore ran and left the store h
HistDo(name, h) ==
  /\ history' = h
  /\ lastCall' = [NoCall EXCEPT !.op = name]
  /\ UNCHANGED <<grains, geometry, totalGrains, releasedCount, releaseInterval,
                 lastReleaseTime, elapsedMs, psTotalMs, rngSeed, app, canvas, loopAt,
                 step, shake>>

\* HistoryStore.log with one of the argument objects
HistLog ==
  /\ calls < MaxLogs
  /\ calls' = calls + 1
  /\ \E arg \in LogArgs : HistDo("log", HS_log(history, arg))

\* faulty variant of HistClear that does not save; C28_StorageIsEntries fails
\* under it
HistClearUnsaved ==
  /\ HistDo("clear", [history EXCEPT !.entries = <<>>])
  /\ UNCHANGED calls

\* HistoryStore.clear
HistClear ==
  /\ HistDo("clear", [history EXCEPT !.entries = <<>>, !.storage = JsonStringify(<<>>)])
  /\ UNCHANGED calls

\* another HistoryStore is constructed over the same localStorage
HistNew ==
  /\ HistDo("new", HistoryOn(history.storage, history.uuids))
  /\ UNCHANGED calls

InitHistory ==
  /\ rngSeed = 0
  /\ grains = <<>>
  /\ geometry = <<>>
  /\ totalGrains = 0
  /\ releasedCount = 0
  /\ releaseInterval = DZero(FALSE)
  /\ lastReleaseTime = 0
  /\ elapsedMs = 0
  /\ psTotalMs = 0
  /\ lastCall = NoCall
  /\ calls = 0
  /\ app = AppInit(FALSE, RunMs)
  /\ canvas = NoCanvas
  /\ loopAt = "idle"
  /\ step = NoStep
  /\ shake = NoShake
  /\ \/ history = HistoryOn(<<>>, 0)
     \/ history = HistoryOn(<<"text", "not-valid-json{{{">>, 0)
     \/ \E n \in StoredLens : history = HistoryOn(JsonStringify(StoredEntries(n)), n)

NextHistory == HistLog \/ HistClear \/ HistNew

SpecHistory == InitHistory /\ [][NextHistory]_vars

-----------------------------------------------------------------------------
(* SpecPomodoro: a PomodoroState on a TimerState with no other listener     *)
(* than the recording ones, up to MaxCycles completed work sessions         *)

\* the duration of a timer configured by hand
ManualMs == 1000

\* the timer is followed for at most MaxRuns times its duration of running
\* time between two calls of configure, restart or reset
MaxFinishes == 2   \* 'finished' events followed per countdown in SpecPomodoro
MaxRuns == 2

\* work durations set by setWorkDuration
WorkDurations == {DEFAULT_WORK_MS, RunMs}

\* a method ran and left the fields c2
PomoDo(name, c2) ==
  /\ c2.finishes <= MaxFinishes
  /\ app' = c2
  /\ lastCall' = [NoCall EXCEPT !.op = name]
  /\ UNCHANGED <<grains, geometry, totalGrains, releasedCount, releaseInterval,
                 lastReleaseTime, elapsedMs, psTotalMs, rngSeed, calls, canvas, loopAt,
                 history, step, shake>>

PomoActivate == PomoDo("activate", P_activate(Begin(app)))
PomoDeactivate == PomoDo("deactivate", P_deactivate(Begin(app)))
PomoSetWorkDuration ==
  \E ms \in WorkDurations \ {app.workMs} :
    PomoDo("setWorkDuration", P_setWorkDuration(Begin(app), ms))
PomoStartNextPhase == PomoDo("startNextPhase", P_startNextPhase(Begin(app)))
PomoTimerConfigure ==
  \E ms \in {0, ManualMs} :
    PomoDo("configure", T_configure(Begin(app), <<"Manual Task", 0>>, ms))
\* pause is called right at a frame callback or, up to the elapsed time
\* TickWindow + RunStep, RunStep after it
PomoTimerPause ==
  \E delta \in {0, RunStep} :
    /\ delta > 0 =>
         /\ app.status = "running"
         /\ app.elapsedBefore + app.sinceStart <= TickWindow + RunStep
    /\ PomoDo("pause", T_pause([Begin(app) EXCEPT !.sinceStart = @ + delta,
                                                 !.ranMs = @ + delta]))
PomoTimerRestart ==
  \E ms \in {app.totalMs, ManualMs} : PomoDo("restart", T_restart(Begin(app), ms))
PomoTick ==
  /\ app.rafPending
  /\ app.ranMs < MaxRuns * app.totalMs
  /\ \E delta \in TickDeltas(app) :
       PomoDo("tick", T_tick([Begin(app) EXCEPT !.sinceStart = @ + delta, !.ranMs = @ + delta]))

\* a frame callback of the timer that comes although none is scheduled
PomoStaleTick == ~app.rafPending /\ PomoDo("staleTick", T_tick(Begin(app)))

InitPomodoro ==
  /\ rngSeed = 0
  /\ grains = <<>>
  /\ geometry = <<>>
  /\ totalGrains = 0
  /\ releasedCount = 0
  /\ releaseInterval = DZero(FALSE)
  /\ lastReleaseTime = 0
  /\ elapsedMs = 0
  /\ psTotalMs = 0
  /\ lastCall = NoCall
  /\ calls = 0
  /\ app = AppInit(FALSE, RunMs)
  /\ canvas = NoCanvas
  /\ history = HistoryOn(<<>>, 0)
  /\ step = NoStep
  /\ shake = NoShake
  /\ loopAt = "idle"

NextPomodoro ==
  /\ app.totalCyclesToday < MaxCycles
  /\ \/ PomoActivate \/ PomoDeactivate \/ PomoSetWorkDuration \/ PomoStartNextPhase
     \/ PomoTimerConfigure \/ PomoTimerPause \/ PomoTimerRestart
     \/ PomoTick \/ PomoStaleTick

SpecPomodoro == InitPomodoro /\ [][NextPomodoro]_vars

-----------------------------------------------------------------------------
(* SpecWired: the handlers of index.ts on the timer, the PomodoroState, the *)
(* renderer's scalar fields, the alarm synth and the history store; the     *)
(* calls on the ParticleSystem are recorded in app.cmds and not run; up to  *)
(* MaxFinished countdowns finish                                            *)

MaxFinished == 3

\* the history after the entries of logged were passed to history.log
RECURSIVE HS_logAll(_, _)
HS_logAll(h, logged) ==
  IF Len(logged) = 0 THEN h
  ELSE HS_logAll(HS_log(h, logged[1]), SubSeq(logged, 2, Len(logged)))

\* a handler ran and left the fields c2
WiredDo(name, c2) ==
  /\ Len(history.entries) < MaxFinished
  /\ \E c \in {c2} :
       /\ app' = c
       /\ history' = HS_logAll(history, c.logged)
  /\ lastCall' = [NoCall EXCEPT !.op = name]
  /\ UNCHANGED <<grains, geometry, totalGrains, releasedCount, releaseInterval,
                 lastReleaseTime, elapsedMs, psTotalMs, rngSeed, calls, canvas, loopAt,
                 step, shake>>

WiredStart == app.status = "idle" /\ WiredDo("onStart", App_onStart(Begin(app)))
WiredPause == app.status = "running" /\ WiredDo("onPause", T_pause(Begin(app)))
WiredResume == app.status = "paused" /\ WiredDo("onResume", T_start(Begin(app)))
WiredReset == WiredDo("resetTimer", App_resetTimer(Begin(app)))
WiredDurationChange ==
  \E ms \in AppDurations \ {app.selectedMs} :
    WiredDo("onDurationChange", App_onDurationChange(Begin(app), ms))
WiredActivate == app.mode = "free" /\ WiredDo("onActivate", App_onActivate(Begin(app)))
WiredDeactivate ==
  app.mode = "pomodoro" /\ WiredDo("onDeactivate", App_onDeactivate(Begin(app)))
WiredDismissBreak ==
  app.overlay # "none" /\ WiredDo("onDismissBreak", App_onDismissBreak(Begin(app)))
WiredToggle == WiredDo("toggleTimer", App_toggleTimer(Begin(app)))

\* the timer's animation-frame callback, delta ms after the previous one
WiredTick ==
  /\ app.rafPending
  /\ \E delta \in TickDeltas(app) :
       WiredDo("tick", T_tick([Begin(app) EXCEPT !.sinceStart = @ + delta,
                                                !.ranMs = @ + delta]))

InitWired ==
  /\ rngSeed = 0
  /\ grains = <<>>
  /\ geometry = <<>>
  /\ totalGrains = 0
  /\ releasedCount = 0
  /\ releaseInterval = DZero(FALSE)
  /\ lastReleaseTime = 0
  /\ elapsedMs = 0
  /\ psTotalMs = 0
  /\ lastCall = NoCall
  /\ calls = 0
  /\ app = AppInit(TRUE, RunMs)
  /\ canvas = NoCanvas
  /\ history = HistoryOn(<<>>, 0)
  /\ step = NoStep
  /\ shake = NoShake
  /\ loopAt = "idle"

NextWired ==
  \/ WiredStart \/ WiredPause \/ WiredResume \/ WiredReset \/ WiredDurationChange
  \/ WiredActivate \/ WiredDeactivate \/ WiredDismissBreak \/ WiredToggle \/ WiredTick

SpecWired == InitWired /\ [][NextWired]_vars

-----------------------------------------------------------------------------
(* SpecShake: a ScreenShake under trigger and update *)

\* the intensities passed to trigger: 0.25, 0.5, 1, 6, 8 and 10
ShakeIntensities ==
  {ShakeUnit \div 4, ShakeUnit \div 2, ShakeUnit, 6 * ShakeUnit, 8 * ShakeUnit,
   10 * ShakeUnit}

\* the dt passed to update: 1/64 s, 1/32 s, 3/64 s (frames), 2 s and 100 s
ShakeDts == {ShakeTicks \div 64, ShakeTicks \div 32, (3 * ShakeTicks) \div 64,
             2 * ShakeTicks, 100 * ShakeTicks}

ShakeDo(name, sh) ==
  /\ shake' = sh
  /\ lastCall' = [NoCall EXCEPT !.op = name]
  /\ UNCHANGED <<grains, geometry, totalGrains, releasedCount, releaseInterval,
                 lastReleaseTime, elapsedMs, psTotalMs, rngSeed, calls, app, canvas,
                 loopAt, history, step>>

ShakeTrigger == \E v \in ShakeIntensities : ShakeDo("trigger", SS_trigger(shake, v))
ShakeUpdate == \E dt \in ShakeDts : ShakeDo("update", SS_update(shake, dt))

InitShake ==
  /\ rngSeed = 0
  /\ grains = <<>>
  /\ geometry = <<>>
  /\ totalGrains = 0
  /\ releasedCount = 0
  /\ releaseInterval = DZero(FALSE)
  /\ lastReleaseTime = 0
  /\ elapsedMs = 0
  /\ psTotalMs = 0
  /\ lastCall = NoCall
  /\ calls = 0
  /\ app = AppInit(FALSE, RunMs)
  /\ canvas = NoCanvas
  /\ history = HistoryOn(<<>>, 0)
  /\ step = NoStep
  /\ shake = NoShake
  /\ loopAt = "idle"

NextShake == ShakeTrigger \/ ShakeUpdate

SpecShake == InitShake /\ [][NextShake]_vars

-----------------------------------------------------------------------------
(* SpecStep: the one-minute timer of SpecRun on either geometry, with each  *)
(* update followed statement by statement: the release loop one grain at a  *)
(* time, the grid, and the for loop one grain at a time, each grain first   *)
(* moved and looked up in the grid, then collided and settled               *)

MaxStepFrames == 3   \* calls of update per behaviour of SpecStep

\* the first grain of lo..hi that the for loop of update steps (the others
\* it passes with continue), hi + 1 when there is none
RECURSIVE NextStepped(_, _, _)
NextStepped(gs, lo, hi) ==
  IF lo > hi THEN hi + 1
  ELSE IF lo = hi THEN (IF gs[lo].active /\ ~gs[lo].settled THEN lo ELSE hi + 1)
  ELSE LET mid == (lo + hi) \div 2
           fl  == NextStepped(gs, lo, mid)
       IN  IF fl <= mid THEN fl ELSE NextStepped(gs, mid + 1, hi)

StepDo(name) == lastCall' = [lastCall EXCEPT !.op = name]

\* update is entered: the early return, _elapsedMs and targetReleased; the
\* timer advanced by one release interval or is found complete
StepBegin ==
  /\ step.at = "idle"
  /\ calls < MaxStepFrames
  /\ \E e \in {Min(elapsedMs + RunStep, RunMs), RunMs} :
       /\ lastCall' = Call("update", e, RunDt)
       /\ IF ~HasGeometry \/ Len(grains) = 0
          THEN UNCHANGED <<elapsedMs, step>>
          ELSE /\ elapsedMs' = e
               /\ step' = [NoStep EXCEPT
                             !.at = "release",
                             !.target = TargetReleased(totalGrains, releaseInterval, e),
                             !.dt = RunDt]
  /\ calls' = calls + 1
  /\ UNCHANGED <<grains, releasedCount>>

\* one iteration of  while (releasedCount < targetReleased)
StepRelease ==
  /\ step.at = "release"
  /\ ~step.target.nan /\ releasedCount < step.target.val
  /\ grains' = releaseNextGrain(grains, Geo, rngSeed, releasedCount)
  /\ releasedCount' = releasedCount + 1
  /\ StepDo("release")
  /\ UNCHANGED <<elapsedMs, calls, step>>

\* the while loop ends: _buildSpatialGrid, and the for loop starts
StepBuildGrid ==
  /\ step.at = "release"
  /\ step.target.nan \/ releasedCount >= step.target.val
  /\ step' = [step EXCEPT !.at = "grains", !.grid = buildSpatialGrid(grains),
                          !.i = NextStepped(grains, 1, Len(grains))]
  /\ StepDo("buildSpatialGrid")
  /\ UNCHANGED <<grains, releasedCount, elapsedMs, calls>>

\* _updateGrain of grain step.i up to its call of _getNearby: gravity,
\* friction, the position, walls, floor and ceiling, and the grid query
StepMove ==
  /\ step.at = "grains"
  /\ step.i <= Len(grains)
  /\ \E moved \in {collideCeiling(
                     collideFloor(
                       collideWalls(integrate(grains[step.i], step.dt), Geo.walls, 1),
                       Geo), Geo)} :
       /\ grains' = [grains EXCEPT ![step.i] = moved]
       /\ step' = [step EXCEPT !.at = "nearby",
                               !.nearby = getNearby(step.grid, moved, step.i)]
  /\ StepDo("getNearby")
  /\ UNCHANGED <<releasedCount, elapsedMs, calls>>

\* the rest of _updateGrain: the grain-to-grain loop and the settling check
\* over the grains the query returned; the for loop moves on
StepCollide ==
  /\ step.at = "nearby"
  /\ \E gs2 \in {collideNearby(grains, step.i, step.nearby, 1, Len(step.nearby))} :
       \E gs3 \in {settle(gs2, step.i, step.nearby, Geo)} :
         /\ grains' = gs3
         /\ step' = [step EXCEPT !.at = "grains", !.nearby = <<>>,
                                 !.i = NextStepped(gs3, step.i + 1, Len(gs3))]
  /\ StepDo("updateGrain")
  /\ UNCHANGED <<releasedCount, elapsedMs, calls>>

\* the for loop ends and update returns
StepEnd ==
  /\ step.at = "grains"
  /\ step.i > Len(grains)
  /\ step' = NoStep
  /\ StepDo("updated")
  /\ UNCHANGED <<grains, releasedCount, elapsedMs, calls>>

InitStep ==
  /\ rngSeed \in Seeds
  /\ geometry \in {<<geo>> : geo \in Geometries}
  /\ grains = [i \in 1..GrainCount(RunMs) |-> NewGrain(Geo, i - 1, rngSeed)]
  /\ totalGrains = GrainCount(RunMs)
  /\ releasedCount = 0
  /\ releaseInterval = FDiv(DoubleOfInt(RunMs), DoubleOfInt(GrainCount(RunMs)))
  /\ lastReleaseTime = 0
  /\ elapsedMs = 0
  /\ psTotalMs = RunMs
  /\ lastCall = [NoCall EXCEPT !.op = "init", !.ms = RunMs, !.hadGeometry = TRUE]
  /\ calls = 0
  /\ app = AppInit(TRUE, RunMs)
  /\ canvas = NoCanvas
  /\ history = HistoryOn(<<>>, 0)
  /\ step = NoStep
  /\ shake = NoShake
  /\ loopAt = "idle"

NextStep ==
  /\ \/ StepBegin \/ StepRelease \/ StepBuildGrid \/ StepMove \/ StepCollide \/ StepEnd
  /\ UNCHANGED <<geometry, totalGrains, releaseInterval, lastReleaseTime, psTotalMs,
                 rngSeed, app, canvas, loopAt, history, shake>>

SpecStep == InitStep /\ [][NextStep]_vars

-----------------------------------------------------------------------------
(* Properties of the release schedule *)

\* the last call was an update that got past the early return of update
Updated == lastCall.op = "update" /\ lastCall.hadGeometry /\ lastCall.hadGrains

\* the last call was an init that got past the early return of init
Initialized == lastCall.op = "init" /\ lastCall.hadGeometry

\* C1: after update(dt, e) on a system with geometry and grains, the release
\* target min(totalGrains, floor(e / releaseInterval)) is a number and
\* releasedCount equals the greater of that target and the count before the call
C1_ReleasedIsTarget ==
  Updated =>
    LET target == TargetReleased(totalGrains, releaseInterval, lastCall.ms)
    IN  /\ ~target.nan
        /\ releasedCount = Max(lastCall.before, target.val)

\* C2: an update never lowers releasedCount, and 0 <= releasedCount <= totalGrains
\* after every call, however far timerElapsedMs is past the total duration
C2_ReleasedMonotone ==
  [][/\ lastCall'.op = "update" => releasedCount' >= releasedCount
     /\ 0 <= releasedCount'
     /\ releasedCount' <= totalGrains']_vars

\* a later update of a run, far past the total duration, released the rest
C2_Witness ==
  /\ Updated
  /\ lastCall.ms > psTotalMs
  /\ lastCall.before > 0
  /\ releasedCount > lastCall.before
  /\ releasedCount = totalGrains

\* C3: after update(dt, e) with e >= totalMs on a system with geometry and
\* grains, releasedCount = totalGrains; stated for the positive durations
\* among "every totalDurationMs"
C3_AllReleasedAtEnd ==
  Updated /\ psTotalMs > 0 /\ lastCall.ms >= psTotalMs => releasedCount = totalGrains

\* C4: in every reachable state the number of active grains is releasedCount
C4_ActiveIsReleased == ActiveCount(grains) = releasedCount

\* an update released some of the reserve, not all of it
C4_Witness ==
  /\ Updated
  /\ releasedCount > lastCall.before
  /\ releasedCount < totalGrains
  /\ ActiveCount(grains) = releasedCount

\* clamp(v, lo, hi)
Clamp(v, lo, hi) == IF v < lo THEN lo ELSE IF v > hi THEN hi ELSE v

\* C5: after init(totalMs) on a system with geometry,
\* totalGrains = clamp(floor(totalMs / 500), 200, 400), which lies in 200..400,
\* and there are exactly totalGrains grains
C5_GrainCount ==
  Initialized =>
    /\ totalGrains = Clamp(lastCall.ms \div 500, 200, 400)
    /\ totalGrains \in 200..400
    /\ Len(grains) = totalGrains

\* init for a duration whose grain count lies strictly between the two limits
C5_Witness ==
  /\ Initialized
  /\ totalGrains = lastCall.ms \div 500
  /\ totalGrains \in 201..399
  /\ Len(grains) = totalGrains

\* C6: after init(totalMs) with totalMs <= 0 on a system with geometry there
\* are 200 grains and the release interval is a strictly positive number
C6_IntervalPositive ==
  Initialized /\ lastCall.ms <= 0 =>
    /\ totalGrains = 200
    /\ releaseInterval.cls = "fin"
    /\ ~releaseInterval.neg

\* C7: right after init on a system with geometry, releasedCount = 0 and every
\* grain is inactive and settled, at or above the neck top (y <= neckTopY),
\* with colorOffset in [-1, 1]; the grains are those of the new countdown only
C7_FreshReserve ==
  Initialized =>
    /\ releasedCount = 0
    /\ Len(grains) = totalGrains
    /\ \A i \in 1..Len(grains) :
         /\ ~grains[i].active
         /\ grains[i].settled
         /\ grains[i].y <= Geo.neckTopY
         /\ grains[i].colorOffset >= -Px(1)
         /\ grains[i].colorOffset <= Px(1)

\* init on a system that held the grains of an earlier countdown
C7_Witness ==
  /\ Initialized
  /\ lastCall.hadGrains
  /\ Len(grains) > 0
  /\ \A i \in 1..Len(grains) : ~grains[i].active /\ grains[i].settled

-----------------------------------------------------------------------------
(* Properties of the grains' flags and of explode *)

\* C8: under update and explode a grain that is active stays active
C8_ActiveStays ==
  [][lastCall'.op \in {"update", "explode"} =>
       /\ Len(grains') = Len(grains)
       /\ \A i \in 1..Len(grains) : grains[i].active => grains'[i].active]_vars

\* an update or an explode on a system with active grains, some of them at rest
C8_Witness ==
  /\ lastCall.op \in {"update", "explode"}
  /\ lastCall.before > 0
  /\ lastCall.resting > 0
  /\ ActiveCount(grains) >= lastCall.before

\* C9: explode changes exactly the grains that are active and settled: each
\* gets settled = false, vy in [-500, -200] and vx in [-100, 100] (px/s) and
\* keeps its position; every other grain and the counters totalGrains and
\* releasedCount are unchanged; afterwards no grain is both active and settled
C9_ExplodeEffect ==
  [][lastCall'.op = "explode" =>
       /\ Len(grains') = Len(grains)
       /\ totalGrains' = totalGrains
       /\ releasedCount' = releasedCount
       /\ \A i \in 1..Len(grains) :
            IF grains[i].active /\ grains[i].settled
            THEN /\ ~grains'[i].settled
                 /\ grains'[i].vy >= -Px(500)
                 /\ grains'[i].vy <= -Px(200)
                 /\ grains'[i].vx >= -Px(100)
                 /\ grains'[i].vx <= Px(100)
                 /\ grains'[i] = [grains[i] EXCEPT !.settled = FALSE,
                                                    !.vx = grains'[i].vx,
                                                    !.vy = grains'[i].vy]
            ELSE grains'[i] = grains[i]
       /\ \A i \in 1..Len(grains') : ~(grains'[i].active /\ grains'[i].settled)]_vars

\* explode on a system with grains at rest, falling grains and reserve grains
C9_Witness ==
  /\ lastCall.op = "explode"
  /\ lastCall.resting > 0
  /\ lastCall.before > lastCall.resting
  /\ lastCall.before < totalGrains
  /\ RestingCount(grains) = 0

\* C10 as stated: after explode at least one grain has vy < 0
C10_SomeGrainRises ==
  lastCall.op = "explode" => \E i \in 1..Len(grains) : grains[i].vy < 0

\* C10, amended: after explode on a system in which at least one grain was
\* active and settled, at least one grain has vy < 0
C10_RestingGrainRises ==
  lastCall.op = "explode" /\ lastCall.resting > 0 =>
    \E i \in 1..Len(grains) : grains[i].vy < 0

\* explode on a system with a grain at rest sent a grain upwards
C10_Witness ==
  /\ lastCall.op = "explode"
  /\ lastCall.resting > 0
  /\ \E i \in 1..Len(grains) : grains[i].active /\ grains[i].vy < 0

-----------------------------------------------------------------------------
(* Containment *)

\* the tolerance of the containment bounds: 5 px, the larger of the two
\* tolerances the test suite allows
Tolerance == Px(5)

\* C11: after every update (dt <= 50 ms) every active grain lies between the
\* ceiling and the floor, up to the tolerance:
\* y + radius <= bottomFloorY + eps and y - radius >= topCeilingY - eps
C11_Contained ==
  Updated /\ lastCall.dt <= 50 =>
    \A i \in 1..Len(grains) :
      grains[i].active =>
        /\ grains[i].y + grains[i].radius <= Geo.bottomFloorY + Tolerance
        /\ grains[i].y - grains[i].radius >= Geo.topCeilingY - Tolerance

-----------------------------------------------------------------------------
(* Calls on an unprepared system, reset, and the grains' colour *)

\* the state of the ParticleSystem
psState ==
  <<grains, geometry, totalGrains, releasedCount, releaseInterval,
    lastReleaseTime, elapsedMs, psTotalMs>>

\* C12: while no geometry is set, init, update, explode and reset leave grains,
\* totalGrains and releasedCount as they are (empty, 0, 0); with a geometry but
\* no grains, update and explode change nothing at all
C12_NoOpWithoutSetup ==
  [][/\ ~lastCall'.hadGeometry /\ lastCall'.op \in {"init", "update", "explode", "reset"} =>
          /\ grains = <<>> /\ totalGrains = 0 /\ releasedCount = 0
          /\ UNCHANGED <<grains, totalGrains, releasedCount>>
     /\ ~lastCall'.hadGrains /\ lastCall'.op \in {"update", "explode"} =>
          UNCHANGED psState]_vars

\* init for a positive duration was called before any geometry was set
C12_Witness ==
  /\ lastCall.op = "init"
  /\ ~lastCall.hadGeometry
  /\ lastCall.ms > 0
  /\ grains = <<>> /\ totalGrains = 0 /\ releasedCount = 0

\* C13: after reset() there are no grains, totalGrains = 0 and
\* releasedCount = 0, and a reset() that follows a reset() changes nothing
C13_ResetEmpties ==
  [][lastCall'.op = "reset" =>
       /\ grains' = <<>> /\ totalGrains' = 0 /\ releasedCount' = 0
       /\ lastCall.op = "reset" => UNCHANGED psState]_vars

\* the second of two resets in a row, the first of which discarded the grains
\* of a countdown
C13_Witness ==
  /\ lastCall.op = "reset"
  /\ ~lastCall.hadGrains
  /\ lastCall.hadGeometry
  /\ psTotalMs > 0
  /\ grains = <<>> /\ totalGrains = 0 /\ releasedCount = 0

\* C14: update and explode keep the number of grains and the colorOffset of
\* every grain
C14_ColorOffsetFixed ==
  [][lastCall'.op \in {"update", "explode"} =>
       /\ Len(grains') = Len(grains)
       /\ \A i \in 1..Len(grains) : grains'[i].colorOffset = grains[i].colorOffset]_vars

\* an update released a further grain and left some active grain moving upwards
C14_Witness ==
  /\ Updated
  /\ releasedCount > lastCall.before
  /\ lastCall.before > 0
  /\ \E i \in 1..Len(grains) : grains[i].active /\ grains[i].vy < 0

-----------------------------------------------------------------------------
(* The render pass and the values the frame loop feeds to update *)

\* C15: _draw and its helpers leave the grains, totalGrains, releasedCount,
\* the geometry and every other field of the ParticleSystem unchanged
C15_DrawIsPure == [][loopAt = "draw" => UNCHANGED psState]_vars

\* a frame was drawn with sand left in the top bulb and grains in flight
C15_Witness ==
  /\ lastCall.op = "draw"
  /\ loopAt = "idle"
  /\ canvas.topSand # <<>>
  /\ Len(canvas.arcs) > 0

\* C16: the timerElapsedMs values the frame loop has passed to update since
\* the last initTimer are non-decreasing and lie in [0, total duration]
C16_FedMonotone ==
  \A i \in 1..Len(app.fed) :
    /\ 0 <= app.fed[i]
    /\ app.fed[i] <= app.rTotalMs
    /\ i > 1 => app.fed[i - 1] <= app.fed[i]

-----------------------------------------------------------------------------
(* The pomodoro phase machine *)

\* the timer emitted 'finished' in the handler that led to this state
Finished(c) == \E i \in 1..Len(c.tevents) : c.tevents[i] = "finished"

\* the snapshots of the pomodoro events ev emitted in that handler
Emitted(c, ev) == SelectSeq(c.events, LAMBDA e : e.ev = ev)

\* C17: while the pomodoro is active a 'finished' event of the timer takes
\* work (cycleIndex < 4) to shortBreak with the same cycleIndex, work
\* (cycleIndex = 4) to longBreak, shortBreak to work with cycleIndex + 1 and
\* longBreak to work with cycleIndex = 1
C17_PhaseStep ==
  [][app.active /\ Finished(app') =>
       CASE app.phase = "work" /\ app.cycleIndex < 4 ->
              app'.phase = "shortBreak" /\ app'.cycleIndex = app.cycleIndex
         [] app.phase = "work" /\ app.cycleIndex = 4 ->
              app'.phase = "longBreak"
         [] app.phase = "shortBreak" ->
              app'.phase = "work" /\ app'.cycleIndex = app.cycleIndex + 1
         [] app.phase = "longBreak" ->
              app'.phase = "work" /\ app'.cycleIndex = 1
         [] OTHER -> FALSE]_vars

\* the long break of a full cycle ended and the first work session of the
\* next cycle is set up
C17_Witness ==
  /\ app.active
  /\ Finished(app)
  /\ app.phase = "work"
  /\ app.cycleIndex = 1
  /\ app.totalCyclesToday = 4

\* C18: activate() emits exactly one phaseChange event, and its snapshot has
\* phase 'work' and cycleIndex 1
C18_ActivateEmits ==
  lastCall.op = "activate" =>
    /\ Len(Emitted(app, "phaseChange")) = 1
    /\ Emitted(app, "phaseChange")[1].snap.phase = "work"
    /\ Emitted(app, "phaseChange")[1].snap.cycleIndex = 1

\* C19: cycleComplete is emitted once, with phase 'longBreak' in its snapshot,
\* when a 'finished' event ends the fourth work session of an active pomodoro,
\* and it is emitted by no other step
C19_CycleComplete ==
  [][IF app.active /\ Finished(app') /\ app.phase = "work" /\ app.cycleIndex = 4
     THEN /\ Len(Emitted(app', "cycleComplete")) = 1
          /\ Emitted(app', "cycleComplete")[1].snap.phase = "longBreak"
          /\ app'.phase = "longBreak"
     ELSE Len(Emitted(app', "cycleComplete")) = 0]_vars

\* the fourth work session ended and cycleComplete went out
C19_Witness ==
  /\ Finished(app)
  /\ app.phase = "longBreak"
  /\ app.cycleIndex = 4
  /\ Len(Emitted(app, "cycleComplete")) = 1

\* C20: while the pomodoro is inactive a 'finished' event of the timer changes
\* none of phase, cycleIndex and totalCyclesToday, does not configure the
\* timer and emits no pomodoro event
C20_InactiveIgnores ==
  [][~app.active /\ Finished(app') =>
       /\ app'.phase = app.phase
       /\ app'.cycleIndex = app.cycleIndex
       /\ app'.totalCyclesToday = app.totalCyclesToday
       /\ ~app'.active
       /\ app'.configures = 0
       /\ app'.events = <<>>
       /\ app'.status = "finished"]_vars

\* a timer configured by hand ran out after the pomodoro was deactivated in
\* its second work session
C20_Witness ==
  /\ ~app.active
  /\ Finished(app)
  /\ app.status = "finished"
  /\ app.totalCyclesToday > 0
  /\ app.cycleIndex = 2

C22_TimerConfigured ==
  [][lastCall'.op = "activate" \/ (app.active /\ Finished(app')) =>
       /\ app'.status = "idle"
       /\ app'.remainingMs = app'.totalMs
       /\ CASE app'.phase = "work" ->
                 /\ app'.taskName = <<"Pomodoro #", app'.cycleIndex>>
                 /\ app'.totalMs = app'.workMs
            [] app'.phase = "shortBreak" ->
                 /\ app'.taskName = <<"Short Break", 0>>
                 /\ app'.totalMs = 5 * 60 * 1000
            [] app'.phase = "longBreak" ->
                 /\ app'.taskName = <<"Long Break", 0>>
                 /\ app'.totalMs = 15 * 60 * 1000
            [] OTHER -> FALSE]_vars

\* the fourth work session, of a duration set by hand, ended and the timer
\* is set up for the long break
C22_Witness ==
  /\ app.active
  /\ Finished(app)
  /\ app.phase = "longBreak"
  /\ app.workMs = RunMs
  /\ app.status = "idle"

-----------------------------------------------------------------------------
(* The countdown of TimerState *)

\* the number of times the timer emitted ev in the handler that led to c
EmitCount(c, ev) == Len(SelectSeq(c.tevents, LAMBDA e : e = ev))

\* C23: a frame callback of the running timer that finds no time left emits
\* tick, stateChange and finished in this order, finished once, and asks for
\* no further frame; with no listener that sets the timer up again it leaves
\* status 'finished' and remainingMs 0; a callback that finds time left emits
\* tick alone; a callback that comes when none is scheduled changes nothing
\* and emits nothing
C23_FinishOnce ==
  [][/\ lastCall'.op = "tick" =>
          IF app.totalMs <= app.elapsedBefore + app.sinceStart + (app'.ranMs - app.ranMs)
             \/ Finished(app')
          THEN /\ Len(app'.tevents) >= 3
               /\ SubSeq(app'.tevents, 1, 3) = <<"tick", "stateChange", "finished">>
               /\ EmitCount(app', "finished") = 1
               /\ ~app'.rafPending
               /\ ~app.active =>
                     /\ app'.status = "finished"
                     /\ app'.remainingMs = 0
                     /\ Len(app'.tevents) = 3
          ELSE /\ app'.tevents = <<"tick">>
               /\ app'.status = "running"
               /\ app'.rafPending
     /\ lastCall'.op = "staleTick" => app' = Begin(app)]_vars

\* a frame callback came after the timer finished and left it finished
C23_Witness ==
  /\ lastCall.op = "staleTick"
  /\ app.status = "finished"
  /\ app.remainingMs = 0
  /\ ~app.rafPending

\* C24: while the timer is running, remainingMs is the duration less the time
\* spent running since the last configure, restart or reset, and not below 0;
\* time spent paused is not counted
C24_PausedNotCounted ==
  app.status = "running" => app.remainingMs = Max(0, app.totalMs - app.ranMs)

\* C25 as stated: start changes nothing and emits nothing when the timer is
\* running or totalMs <= 0, pause changes nothing and emits nothing unless the
\* timer is running; otherwise start leaves status 'running' and pause leaves
\* status 'paused', each having emitted exactly one stateChange
C25_StartPause ==
  [][/\ lastCall'.op = "startNextPhase" =>
          IF app.status = "running" \/ app.totalMs <= 0
          THEN app' = Begin(app)
          ELSE /\ app'.status = "running"
               /\ EmitCount(app', "stateChange") = 1
     /\ lastCall'.op = "pause" =>
          IF app.status # "running"
          THEN app' = Begin(app)
          ELSE /\ app'.status = "paused"
               /\ app'.tevents = <<"stateChange">>]_vars

\* C25, amended: as stated, except that the frame callback start runs may
\* find no time left (the time before the last pause reaches totalMs); start
\* then emits stateChange, tick, stateChange and finished and does not leave
\* the timer running
C25_StartPauseOrFinish ==
  [][/\ lastCall'.op = "startNextPhase" =>
          IF app.status = "running" \/ app.totalMs <= 0
          THEN app' = Begin(app)
          ELSE IF app.elapsedBefore < app.totalMs
               THEN /\ app'.status = "running"
                    /\ app'.tevents = <<"stateChange", "tick">>
               ELSE /\ Len(app'.tevents) >= 4
                    /\ SubSeq(app'.tevents, 1, 4)
                         = <<"stateChange", "tick", "stateChange", "finished">>
                    /\ app'.status # "running"
     /\ lastCall'.op = "pause" =>
          IF app.status # "running"
          THEN app' = Begin(app)
          ELSE /\ app'.status = "paused"
               /\ app'.tevents = <<"stateChange">>]_vars

\* a paused timer with time left was started again
C25_Witness ==
  /\ lastCall.op = "startNextPhase"
  /\ app.status = "running"
  /\ app.elapsedBefore > 0
  /\ app.tevents = <<"stateChange", "tick">>

-----------------------------------------------------------------------------
(* The history store *)

\* two entry lists have the same length and, entry by entry, every property
\* of a HistoryEntry reads the same
SameEntries(a, b) ==
  /\ Len(a) = Len(b)
  /\ \A i \in 1..Len(a) :
       \A k \in {"id", "taskName", "durationMs", "mode", "phase", "completedAt"} :
         Prop(a[i], k) = Prop(b[i], k)

\* C27: a call of log leaves at most MAX_ENTRIES entries: the entries it
\* found, in their order and less the oldest ones when there would be more
\* than MAX_ENTRIES, followed by the new entry
C27_AtMostMaxEntries ==
  [][lastCall'.op = "log" =>
       /\ Len(history'.entries) = Min(Len(history.entries) + 1, MAX_ENTRIES)
       /\ \A i \in 1..(Len(history'.entries) - 1) :
            history'.entries[i] =
              history.entries[Len(history.entries) + 1 - Len(history'.entries) + i]
       /\ Prop(history'.entries[Len(history'.entries)], "id") = <<"uuid", history'.uuids>>
       /\ \A j \in 1..Len(history.entries) :
            Prop(history.entries[j], "id") # <<"uuid", history'.uuids>>]_vars

\* two entries were logged to a full store and the two oldest are gone
C27_Witness ==
  /\ lastCall.op = "log"
  /\ Len(history.entries) = MAX_ENTRIES
  /\ history.uuids = MAX_ENTRIES + 2
  /\ Prop(history.entries[1], "id") = <<"uuid", 3>>
  /\ Prop(history.entries[MAX_ENTRIES], "id") = <<"uuid", MAX_ENTRIES + 2>>

-----------------------------------------------------------------------------
(* Grains at rest *)

\* C29: update leaves every grain that is active and settled as it is: same
\* position, zero velocity, still settled, also when unsettled grains push
\* against it
C29_SettledStays ==
  [][lastCall'.op = "update" =>
       \A i \in 1..Len(grains) :
         grains[i].active /\ grains[i].settled =>
           /\ grains[i].vx = 0
           /\ grains[i].vy = 0
           /\ grains'[i] = grains[i]]_vars

\* after an update on a system with grains at rest, a moving grain overlaps
\* a grain at rest
C29_Witness ==
  /\ lastCall.op = "update"
  /\ lastCall.resting > 0
  /\ \E i, j \in 1..Len(grains) :
       /\ grains[i].active /\ grains[i].settled
       /\ grains[j].active /\ ~grains[j].settled
       /\ (grains[j].x - grains[i].x) * (grains[j].x - grains[i].x)
            + (grains[j].y - grains[i].y) * (grains[j].y - grains[i].y)
          < (grains[i].radius + grains[j].radius) * (grains[i].radius + grains[j].radius)

-----------------------------------------------------------------------------
(* The steps of update *)

\* C31: a release takes an inactive grain none of the inactive grains lies
\* below, leaves it active and unsettled at y = neckTopY + 2 with x in
\* [neckLeft + radius, neckRight - radius], vy in [20, 50] and vx in [-5, 5],
\* and changes no other grain
C31_ReleasePicksLowest ==
  [][lastCall'.op = "release" =>
       \E b \in 1..Len(grains) :
         /\ ~grains[b].active
         /\ \A j \in 1..Len(grains) : ~grains[j].active => grains[j].y <= grains[b].y
         /\ grains'[b].active /\ ~grains'[b].settled
         /\ grains'[b].y = Geo.neckTopY + Px(2)
         /\ grains'[b].x >= Geo.neckLeft + grains'[b].radius
         /\ grains'[b].x <= Geo.neckRight - grains'[b].radius
         /\ grains'[b].vy >= Px(20) /\ grains'[b].vy <= Px(50)
         /\ grains'[b].vx >= -Px(5) /\ grains'[b].vx <= Px(5)
         /\ \A j \in 1..Len(grains) : j # b => grains'[j] = grains[j]]_vars

\* the third grain of the run was released, and it was not the first grain of
\* the reserve
C31_Witness ==
  /\ lastCall.op = "release"
  /\ releasedCount = 3
  /\ ActiveCount(grains) = 3
  /\ \E b \in 1..Len(grains) :
       /\ grains[b].active
       /\ grains[b].y = Geo.neckTopY + Px(2)
       /\ grains[b].vy <= Px(50)
       /\ \E j \in 1..(b - 1) : ~grains[j].active

\* the grains of a neighbour list, and whether grain j lies in the cell of grain
\* i or in one of the 8 cells around it
NearbySet == {step.nearby[k] : k \in 1..Len(step.nearby)}
CellsAdjacent(gs, i, j) ==
  /\ Abs(CellOf(gs[j])[1] - CellOf(gs[i])[1]) <= 1
  /\ Abs(CellOf(gs[j])[2] - CellOf(gs[i])[2]) <= 1

\* C32: when _updateGrain has queried the grid for grain step.i, the grains it
\* got include every other active grain that lies, at that moment, in the
\* grain's cell or one of the 8 cells around it, and they include neither an
\* inactive grain nor the grain itself
C32_NearbyComplete ==
  step.at = "nearby" =>
    /\ \A j \in 1..Len(grains) :
         (j # step.i /\ grains[j].active /\ CellsAdjacent(grains, step.i, j))
           => j \in NearbySet
    /\ \A j \in NearbySet : grains[j].active
    /\ step.i \notin NearbySet

\* what does hold of the grains the query returns: none is inactive and none
\* is the grain itself
NearbyActiveOthers ==
  step.at = "nearby" =>
    /\ \A j \in NearbySet : grains[j].active
    /\ step.i \notin NearbySet

-----------------------------------------------------------------------------
(* The screen shake *)

\* C33: whenever active is false, offsetX and offsetY are 0 whatever
\* Math.random() returns, and the intensity is not below 0
C33_InactiveNoOffset ==
  /\ ~SS_active(shake) =>
       \A r \in 0..(RandDen - 1) :
         SS_offsetX(shake, r) = 0 /\ SS_offsetY(shake, r) = 0
  /\ shake.intensity >= 0

\* what does hold: the intensity is never below 0, and below the threshold
\* both offsets are 0
IntensityNotNegative ==
  /\ shake.intensity >= 0
  /\ shake.intensity < ShakeThreshold =>
       \A r \in 0..(RandDen - 1) :
         SS_offsetX(shake, r) = 0 /\ SS_offsetY(shake, r) = 0

-----------------------------------------------------------------------------
(* The wired application *)

\* C34: when a handler that emitted stateChange or finished has returned, and
\* with it the dispatch of its last event, the renderer's status is the
\* timer's status
C34_RendererFollowsTimer ==
  (\E k \in 1..Len(app.tevents) : app.tevents[k] \in {"stateChange", "finished"})
    => app.rStatus = app.status

\* C35: while the timer is running the renderer's alarm flag is off and the
\* alarm synth is not looping
C35_NoAlarmWhileRunning ==
  app.status = "running" => ~app.alarmActive /\ ~app.synthLooping

\* C36: in pomodoro mode the entry logged when the timer finishes has the
\* phase that was running, so a finished work session adds its duration to
\* the daily total and a finished break adds nothing
C36_LoggedPhase ==
  [][(app.mode = "pomodoro" /\ Len(app'.logged) > 0) =>
       /\ Prop(app'.logged[1], "phase") = <<"string", app.phase>>
       /\ HS_getDailyTotal(history') =
            HS_getDailyTotal(history) + (IF app.phase = "work" THEN app.totalMs ELSE 0)]_vars

-----------------------------------------------------------------------------
(* One finish per countdown *)

\* C37: a TimerState emits 'finished' at most once between two calls of
\* configure, restart or reset, whatever start and pause calls are made
C37_FinishesOnce == app.finishes <= 1

-----------------------------------------------------------------------------
(* The range of the cycle index *)

\* C38: cycleIndex is within 1..4 in every reachable state of the pomodoro,
\* under any interleaving of activate, deactivate, setWorkDuration and
\* 'finished' events of the timer
C38_CycleIndexRange == app.cycleIndex \in 1..CYCLES_BEFORE_LONG

\* the third short break has just ended and the index has reached its
\* largest value
C38_Witness ==
  /\ app.active
  /\ lastCall.op = "tick"
  /\ Finished(app)
  /\ app.phase = "work"
  /\ app.cycleIndex = CYCLES_BEFORE_LONG

-----------------------------------------------------------------------------
(* Velocity *)

\* C39: in every reachable state of the particle system every settled grain
\* has vx = 0 and vy = 0 and every inactive grain is settled, so that only
\* active, unsettled grains carry velocity
C39_OnlyFlyingGrainsMove ==
  \A i \in 1..Len(grains) :
    /\ grains[i].settled => grains[i].vx = 0 /\ grains[i].vy = 0
    /\ ~grains[i].active => grains[i].settled

\* after an update a grain waits in the reserve, one has come to rest in the
\* bottom bulb and one is still falling
C39_Witness ==
  /\ lastCall.op = "update"
  /\ \E i \in 1..Len(grains) : ~grains[i].active
  /\ \E i \in 1..Len(grains) : grains[i].active /\ grains[i].settled
  /\ \E i \in 1..Len(grains) : grains[i].active /\ ~grains[i].settled /\ grains[i].vy # 0

=============================================================================
